---- MODULE Spec2Model ----
(***************************************************************************)
(* Community Render add-on (community_render.py, startup.py).              *)
(*                                                                         *)
(* Python strings are modelled as sequences of one-character strings, so   *)
(* that split / join / startswith / substring tests / int() / str() are    *)
(* computed the way the code computes them.                                *)
(*                                                                         *)
(* Two specifications share the module:                                    *)
(*   SpecQC - the QC error ledger (extend_qc_error, qc_error_count) driven *)
(*            by arbitrary call sequences on one row;                      *)
(*   Spec   - the process: rebuild, activation with crash marker, render   *)
(*            queue (single / batch / timer), operators, crash + restart.  *)
(***************************************************************************)
EXTENDS Integers, Sequences, FiniteSets, TLC

VARIABLES
    \* ---- one row of the QC ledger (SpecQC) ----
    q_bag,        \* this_row.qc_error of the row under test
    q_init,       \* the bag the row started with
    q_ret,        \* return value of the last extend_qc_error call
    q_last,       \* [apply, inc] of the last call
    q_prevbag,    \* bag before the last call
    q_twice,      \* the last two calls were the same non-incrementing call
    q_run,        \* [tag, n, ok]: n consecutive incrementing calls on tag
    q_calls,      \* number of calls made so far
    \* ---- files on disk (survive a process crash) ----
    src_folder,   \* names of the files in props.source_folder
    scene_kind,   \* what the host does with each source file when it is loaded
    tsv,          \* form_responses.tsv: [present, rows]
    qc_files,     \* qc_errors/<blend>.txt: [present, text] per blend
    crash_cache,  \* crash_cache_blend.txt: [present, text, old]
    render_files, \* existing render images, as <<sub-folder, file name>>
    restart_file, \* restart_until_finished.txt exists
    \* ---- scene properties and module globals of the running process ----
    pc,           \* position of the process (see the actions)
    blend_filter, \* props.blend_filter (saved with the scene)
    file_list,    \* props.file_list
    file_list_index,
    render_running,
    _MID_RENDER,
    _EXISTING_FILE_CACHE,
    _FORM_DATA,
    filepath,     \* scene.render.filepath
    loaded_scene, \* the submission whose scene the placeholder references
    scene_stats,  \* the module global: the counters the panel shows
    \* ---- control state of the running handlers ----
    act_ret,      \* what called the activation in progress
    run,          \* the queue run in progress: none / single / batch / timer
    remaining,    \* iterations left of the batch loop over remaining_renders
    job,          \* full-resolution render job running in the background
    headless,     \* the process was launched through startup.py
    \* ---- history (not read by the program) ----
    h_crashes,    \* process crashes so far
    h_ops,        \* operator invocations so far
    h_hist,       \* what the run has done so far (see NoHist)
    \* ---- one call of get_interest_objects (SpecSel) ----
    o_scene,      \* scn.collection.all_objects, in iteration order
    o_out,        \* what the call returned and did (see NoOut)
    \* ---- the placeholder collection and the linked scenes (SpecView) ----
    w_scenes,     \* bpy.data.scenes: the linked submission scenes resident
    w_objs,       \* all_objects of the collection "load_scene", in order
    w_pc,         \* position inside load_active_selection
    w_load,       \* the load in progress and the last one (see NoLoad)
    \* ---- the render resolution over the queue runs (SpecRes) ----
    resolution,   \* <<scene.render.resolution_x, scene.render.resolution_y>>
    PRIOR_RENDER, \* the module global: <<>> or a saved resolution
    r_pc,         \* position inside the queue run
    r_run,        \* the queue run in progress and its history (see NoRun)
    \* ---- one call of get_avg_pos_and_scale (SpecBox) ----
    g_bounds,     \* the eight world-space corners of obj.bound_box, in order
    g_out         \* what the call returned (see NoMeasure)

qcVars == <<q_bag, q_init, q_ret, q_last, q_prevbag, q_twice, q_run, q_calls>>

diskVars == <<src_folder, scene_kind, tsv, qc_files, crash_cache, render_files,
              restart_file>>

procVars == <<pc, blend_filter, file_list, file_list_index, render_running,
              _MID_RENDER, _EXISTING_FILE_CACHE, _FORM_DATA, filepath,
              loaded_scene, scene_stats, act_ret, run, remaining, job,
              headless>>

histVars == <<h_crashes, h_ops, h_hist>>

selVars == <<o_scene, o_out>>

viewVars == <<w_scenes, w_objs, w_pc, w_load>>

resVars == <<resolution, PRIOR_RENDER, r_pc, r_run>>

boxVars == <<g_bounds, g_out>>

auxVars == <<selVars, viewVars, resVars, boxVars>>

vars == <<qcVars, diskVars, procVars, histVars, auxVars>>

-----------------------------------------------------------------------------
(* Python string primitives                                                *)

Digits == <<"0", "1", "2", "3", "4", "5", "6", "7", "8", "9">>

UpperCase == <<"A","B","C","D","E","F","G","H","I","J","K","L","M",
               "N","O","P","Q","R","S","T","U","V","W","X","Y","Z">>

LowerCase == <<"a","b","c","d","e","f","g","h","i","j","k","l","m",
               "n","o","p","q","r","s","t","u","v","w","x","y","z">>

\* str.lower() on one character
LowerChar(c) ==
    IF \E i \in DOMAIN UpperCase : UpperCase[i] = c
    THEN LowerCase[CHOOSE i \in DOMAIN UpperCase : UpperCase[i] = c]
    ELSE c

\* str.lower()
Lower(s) == [i \in DOMAIN s |-> LowerChar(s[i])]

\* s.startswith(p)
StartsWith(s, p) == Len(p) <= Len(s) /\ SubSeq(s, 1, Len(p)) = p

\* s.endswith(p)
EndsWith(s, p) ==
    Len(p) <= Len(s) /\ SubSeq(s, Len(s) - Len(p) + 1, Len(s)) = p

\* `sub in s`
Contains(s, sub) ==
    \E i \in 1..(Len(s) - Len(sub) + 1) : SubSeq(s, i, i + Len(sub) - 1) = sub

\* s.split(c) for a one-character separator c
RECURSIVE Split(_, _)
Split(s, c) ==
    IF \A i \in DOMAIN s : s[i] # c
    THEN <<s>>
    ELSE LET k == CHOOSE i \in DOMAIN s :
                     s[i] = c /\ \A j \in 1..(i - 1) : s[j] # c
         IN  <<SubSeq(s, 1, k - 1)>> \o Split(SubSeq(s, k + 1, Len(s)), c)

\* c.join(parts)
RECURSIVE Join(_, _)
Join(parts, c) ==
    IF Len(parts) = 0 THEN <<>>
    ELSE IF Len(parts) = 1 THEN parts[1]
    ELSE parts[1] \o <<c>> \o Join(Tail(parts), c)

\* [x for x in parts if x]
RECURSIVE NonEmpty(_)
NonEmpty(parts) ==
    IF Len(parts) = 0 THEN <<>>
    ELSE IF Len(parts[1]) = 0 THEN NonEmpty(Tail(parts))
    ELSE <<parts[1]>> \o NonEmpty(Tail(parts))

\* s.strip() for blanks
RECURSIVE Strip(_)
Strip(s) ==
    IF Len(s) = 0 THEN s
    ELSE IF s[1] = " " THEN Strip(Tail(s))
    ELSE IF s[Len(s)] = " " THEN Strip(SubSeq(s, 1, Len(s) - 1))
    ELSE s

IsDigit(c) == \E i \in DOMAIN Digits : Digits[i] = c

DigitVal(c) == (CHOOSE i \in DOMAIN Digits : Digits[i] = c) - 1

AllDigits(s) == Len(s) > 0 /\ \A i \in DOMAIN s : IsDigit(s[i])

RECURSIVE DigitsVal(_)
DigitsVal(s) ==
    IF Len(s) = 0 THEN 0
    ELSE 10 * DigitsVal(SubSeq(s, 1, Len(s) - 1)) + DigitVal(s[Len(s)])

\* int(s) succeeds (blanks around and one sign are accepted)
IntOk(s) ==
    LET t == Strip(s)
    IN  \/ AllDigits(t)
        \/ Len(t) > 1 /\ t[1] \in {"+", "-"} /\ AllDigits(Tail(t))

\* int(s), for IntOk(s)
IntVal(s) ==
    LET t == Strip(s)
    IN  IF t[1] = "-" THEN 0 - DigitsVal(Tail(t))
        ELSE IF t[1] = "+" THEN DigitsVal(Tail(t))
        ELSE DigitsVal(t)

RECURSIVE NatStr(_)
NatStr(n) ==
    IF n < 10 THEN <<Digits[n + 1]>>
    ELSE NatStr(n \div 10) \o <<Digits[(n % 10) + 1]>>

\* str(n) / f"{n}"
IntStr(n) == IF n < 0 THEN <<"-">> \o NatStr(0 - n) ELSE NatStr(n)

-----------------------------------------------------------------------------
(* Program constants                                                       *)

ERR_CRASHED == <<"c","r","a","s","h","e","d">>

ERR_SKIP == <<"s","k","i","p">>

-----------------------------------------------------------------------------
(* QC error ledger                                                         *)

\* [err.split(":")[0] for err in qc_error.split(";") if err]
RECURSIVE Prefixes(_)
Prefixes(toks) ==
    IF Len(toks) = 0 THEN <<>>
    ELSE <<Split(toks[1], ":")[1]>> \o Prefixes(Tail(toks))

\* list.index(x)
IndexOf(list, x) ==
    CHOOSE i \in DOMAIN list : list[i] = x /\ \A j \in 1..(i - 1) : list[j] # x

\* Variant of extend_qc_error without the "if not increment: return False"
\* early return: a re-applied plain tag is appended again.
extend_qc_error_dup(qc_error, apply_error, increment) ==
    LET current_source == IF Len(qc_error) > 0
                          THEN NonEmpty(Split(qc_error, ";")) ELSE <<>>
        apply_prefix   == Split(apply_error, ":")[1]
    IN  [qc_error |->
            Join(Append(current_source,
                        IF increment THEN apply_prefix \o <<":", "1">>
                        ELSE apply_error), ";"),
         ret |-> "True"]

\* Variant of extend_qc_error that looks the tag up among the whole tokens
\* instead of among their prefixes before ':'.
extend_qc_error_whole(qc_error, apply_error, increment) ==
    LET current_source == IF Len(qc_error) > 0
                          THEN NonEmpty(Split(qc_error, ";")) ELSE <<>>
        apply_prefix   == Split(apply_error, ":")[1]
        has == \E i \in DOMAIN current_source : current_source[i] = apply_prefix
    IN  IF has
        THEN IF ~increment
             THEN [qc_error |-> qc_error, ret |-> "False"]
             ELSE [qc_error |->
                      Join([current_source EXCEPT
                               ![IndexOf(current_source, apply_prefix)] =
                                   apply_prefix \o <<":", "2">>], ";"),
                   ret |-> "True"]
        ELSE [qc_error |->
                 Join(Append(current_source,
                             IF increment THEN apply_prefix \o <<":", "1">>
                             ELSE apply_error), ";"),
              ret |-> "True"]

\* extend_qc_error(this_row, apply_error, increment): the new this_row.qc_error
\* and the return value ("True", "False", or "None" for the bare return).
\* The property is assigned (and its update callback runs) iff ret = "True".
extend_qc_error(qc_error, apply_error, increment) ==
    LET current_source == IF Len(qc_error) > 0
                          THEN NonEmpty(Split(qc_error, ";")) ELSE <<>>
        current_prefix == Prefixes(current_source)
        apply_prefix   == Split(apply_error, ":")[1]
        has == \E i \in DOMAIN current_prefix : current_prefix[i] = apply_prefix
    IN  IF has
        THEN IF ~increment
             THEN [qc_error |-> qc_error, ret |-> "False"]
             ELSE LET index == IndexOf(current_prefix, apply_prefix)
                      m0    == current_source[index]
                      match == IF \A i \in DOMAIN m0 : m0[i] # ":"
                               THEN m0 \o <<":", "1">> ELSE m0
                      parts == Split(match, ":")
                      init_number == parts[Len(parts)]
                  IN  IF ~IntOk(init_number)
                      THEN [qc_error |-> qc_error, ret |-> "None"]
                      ELSE [qc_error |->
                               Join([current_source EXCEPT ![index] =
                                        apply_prefix \o <<":">>
                                        \o IntStr(IntVal(init_number) + 1)],
                                    ";"),
                            ret |-> "True"]
        ELSE IF increment
             THEN [qc_error |->
                      Join(Append(current_source,
                                  apply_prefix \o <<":", "1">>), ";"),
                   ret |-> "True"]
             ELSE [qc_error |-> Join(Append(current_source, apply_error), ";"),
                   ret |-> "True"]

\* qc_error_count: the first token (in split order) that starts with name
RECURSIVE qc_error_count_scan(_, _)
qc_error_count_scan(errors, name) ==
    IF Len(errors) = 0 THEN 0
    ELSE IF ~StartsWith(errors[1], name)
         THEN qc_error_count_scan(Tail(errors), name)
         ELSE LET e0  == errors[1]
                  err == IF \A i \in DOMAIN e0 : e0[i] # ":"
                         THEN e0 \o <<":", "1">> ELSE e0
                  parts == Split(err, ":")
                  count == parts[Len(parts)]
              IN  IF IntOk(count) THEN IntVal(count) ELSE 0

\* qc_error_count(qc_error, name)
qc_error_count(qc_error, name) ==
    IF ~Contains(qc_error, name) THEN 0
    ELSE qc_error_count_scan(Split(qc_error, ";"), name)

-----------------------------------------------------------------------------
(* More string helpers                                                     *)

\* Characters in ASCII order, for sorted()
CharOrder ==
    <<" ", "(", ")", "-", ".">> \o Digits \o <<":", ";", "=", "?">>
    \o UpperCase \o <<"_">> \o LowerCase

Ord(c) == CHOOSE i \in DOMAIN CharOrder : CharOrder[i] = c

\* a < b for Python strings
RECURSIVE StrLess(_, _)
StrLess(a, b) ==
    IF Len(b) = 0 THEN FALSE
    ELSE IF Len(a) = 0 THEN TRUE
    ELSE IF a[1] # b[1] THEN Ord(a[1]) < Ord(b[1])
    ELSE StrLess(Tail(a), Tail(b))

\* sorted(S) for a set of strings
RECURSIVE Sorted(_)
Sorted(S) ==
    IF S = {} THEN <<>>
    ELSE LET m == CHOOSE x \in S : \A y \in S \ {x} : StrLess(x, y)
         IN  <<m>> \o Sorted(S \ {m})

\* index of the first occurrence of sub in s, 0 if none
FindStr(s, sub) ==
    IF Contains(s, sub)
    THEN CHOOSE i \in 1..(Len(s) - Len(sub) + 1) :
            /\ SubSeq(s, i, i + Len(sub) - 1) = sub
            /\ \A j \in 1..(i - 1) : SubSeq(s, j, j + Len(sub) - 1) # sub
    ELSE 0

\* s.split(sep) for a non-empty separator string
RECURSIVE SplitStr(_, _)
SplitStr(s, sep) ==
    LET k == FindStr(s, sep)
    IN  IF k = 0 THEN <<s>>
        ELSE <<SubSeq(s, 1, k - 1)>>
             \o SplitStr(SubSeq(s, k + Len(sep), Len(s)), sep)

\* "".join(parts)
RECURSIVE Concat(_)
Concat(parts) ==
    IF Len(parts) = 0 THEN <<>> ELSE parts[1] \o Concat(Tail(parts))

\* s.replace(old, "")
ReplaceWithEmpty(s, old) == Concat(SplitStr(s, old))

\* os.path.splitext(name): <<root, ext>>
SplitExt(name) ==
    LET dots == {i \in DOMAIN name : name[i] = "."}
        lead == {i \in DOMAIN name : \A j \in 1..i : name[j] = "."}
    IN  IF dots \ lead = {} THEN <<name, <<>>>>
        ELSE LET k == CHOOSE i \in dots : \A j \in dots : j <= i
             IN  <<SubSeq(name, 1, k - 1), SubSeq(name, k, Len(name))>>

-----------------------------------------------------------------------------
(* More program constants                                                  *)

READY == "ready"

DONE == "done"

SKIP == "skip"

NOT_QUEUED == "not_queued"

ERR_NOT_LATEST_ENTRY ==
    <<"N","o","t"," ","t","h","e"," ","l","a","t","e","s","t"," ",
      "e","n","t","r","y"," ","f","o","r"," ","t","h","i","s"," ",
      "e","m","a","i","l">>

ERR_NO_FORM_ID ==
    <<"N","o"," ","f","o","r","m"," ","i","d"," ","m","a","t","c","h">>

ERR_NO_BASE_MESH ==
    <<"N","o"," ","b","a","s","e"," ","m","e","s","h"," ","f","o","u","n","d">>

DOT_BLEND == <<".","b","l","e","n","d">>

DOT_PNG == <<".","p","n","g">>

DOT_TXT == <<".","t","x","t">>

COL_FILENAME ==
    <<"b","l","e","n","d","_","f","i","l","e","n","a","m","e">>

COL_FULL_NAME == <<"f","u","l","l","_","n","a","m","e">>

COL_COUNTRY == <<"c","o","u","n","t","r","y">>

COL_URL == <<"b","l","e","n","d","_","u","r","l">>

COL_EMAIL == <<"e","m","a","i","l">>

URL_ID_SEP == <<"?","i","d","=">>

FILTER_ALL == <<"a","l","l">>

FILTER_MISSING == <<"m","i","s","s","i","n","g">>

FILTER_ANY_QC == <<"a","n","y","_","q","c">>

\* props.output_by_id (default True)
output_by_id == TRUE

-----------------------------------------------------------------------------
(* The files the model runs on                                             *)

BlendA == <<"a">> \o DOT_BLEND

BlendB == <<"b">> \o DOT_BLEND

BlendC == <<"c">> \o DOT_BLEND

Blends == {BlendA, BlendB, BlendC}

\* One registry line per source file, plus the header line and a last line
\* for a file that is not in the source folder.
TsvRow(blend, name, id, email) ==
    <<blend, name, <<"U","S">>, <<"u">> \o URL_ID_SEP \o id, email>>

TsvFull ==
    [present |-> TRUE,
     rows |-> << <<COL_FILENAME, COL_FULL_NAME, COL_COUNTRY, COL_URL,
                   COL_EMAIL>>,
                 TsvRow(BlendA, <<"A","n","n">>, <<"1">>, <<"e","1">>),
                 TsvRow(BlendB, <<"B","o","b">>, <<"2">>, <<"e","2">>),
                 TsvRow(BlendC, <<"C","y">>, <<"3">>, <<"e","3">>),
                 TsvRow(<<"z">> \o DOT_BLEND, <<"Z","o">>, <<"9">>,
                        <<"e","9">>) >>]

\* a registry whose data rows are exactly the files of the source folder
TsvLast == [present |-> TRUE, rows |-> SubSeq(TsvFull.rows, 1, 4)]

\* a registry with exactly one data row
TsvOne == [present |-> TRUE, rows |-> SubSeq(TsvFull.rows, 1, 2)]

TsvAbsent == [present |-> FALSE, rows |-> <<>>]

NoFile == [present |-> FALSE, text |-> <<>>]

File(text) == [present |-> TRUE, text |-> text]

\* The crash marker file; old says that an earlier process wrote it.
NoMarker == [present |-> FALSE, text |-> <<>>, old |-> FALSE]

Marker(text) == [present |-> TRUE, text |-> text, old |-> FALSE]

\* What the run has done so far, recorded beside the program's state:
\*   fresh  - the last step was the process start
\*   boot   - the marker file and the named file's QC text found at the start
\*   loads  - how often the host began to load each source file
\*   passes - thumbnail passes begun per source file in the current queue run
\*   queued - the rows as the last queue_all_files left them
\*   sel    - the rows render_next_in_queue has selected
\*   passed - the ready rows render_next_in_queue has passed over
\*   done   - source files whose full pass finished in the current queue run
\*   streak - the file the last crashes happened on while loading, and how
\*            many in a row
\*   rebuilds - 1 after the start, 2 after a reload that followed a rebuild
\*            with nothing but the activation in between, 0 otherwise
\*   prev   - the list as it was before that reload
\*   csv    - how the last load_csv_metadata ended: "loaded" or "raised"
NoHist ==
    [fresh |-> FALSE,
     boot |-> [marker |-> NoMarker, bag |-> <<>>],
     loads |-> [b \in Blends |-> 0],
     passes |-> [b \in Blends |-> 0],
     queued |-> <<>>,
     sel |-> {},
     passed |-> {},
     done |-> {},
     streak |-> [blend |-> <<>>, k |-> 0],
     rebuilds |-> 0,
     prev |-> <<>>,
     csv |-> "none"]

-----------------------------------------------------------------------------
(* State of the program as one record, so that the handlers, which call    *)
(* each other, can be written as operators from state to state.            *)

\* scene_stats = {}: no counter is stored yet
NoStats == [blends |-> 0, rendered |-> 0, num_qc_error |-> 0,
            no_form_match |-> 0]

State ==
    [src_folder |-> src_folder, scene_kind |-> scene_kind, tsv |-> tsv,
     qc_files |-> qc_files, crash_cache |-> crash_cache,
     render_files |-> render_files, restart_file |-> restart_file,
     pc |-> pc, blend_filter |-> blend_filter, file_list |-> file_list,
     file_list_index |-> file_list_index, render_running |-> render_running,
     _MID_RENDER |-> _MID_RENDER,
     _EXISTING_FILE_CACHE |-> _EXISTING_FILE_CACHE,
     _FORM_DATA |-> _FORM_DATA, filepath |-> filepath,
     loaded_scene |-> loaded_scene, scene_stats |-> scene_stats,
     act_ret |-> act_ret, run |-> run,
     remaining |-> remaining, job |-> job, headless |-> headless,
     h_crashes |-> h_crashes, h_ops |-> h_ops, h_hist |-> h_hist]

Commit(s) ==
    /\ src_folder' = s.src_folder
    /\ scene_kind' = s.scene_kind
    /\ tsv' = s.tsv
    /\ qc_files' = s.qc_files
    /\ crash_cache' = s.crash_cache
    /\ render_files' = s.render_files
    /\ restart_file' = s.restart_file
    /\ pc' = s.pc
    /\ blend_filter' = s.blend_filter
    /\ file_list' = s.file_list
    /\ file_list_index' = s.file_list_index
    /\ render_running' = s.render_running
    /\ _MID_RENDER' = s._MID_RENDER
    /\ _EXISTING_FILE_CACHE' = s._EXISTING_FILE_CACHE
    /\ _FORM_DATA' = s._FORM_DATA
    /\ filepath' = s.filepath
    /\ loaded_scene' = s.loaded_scene
    /\ scene_stats' = s.scene_stats
    /\ act_ret' = s.act_ret
    /\ run' = s.run
    /\ remaining' = s.remaining
    /\ job' = s.job
    /\ headless' = s.headless
    /\ h_crashes' = s.h_crashes
    /\ h_ops' = s.h_ops
    /\ h_hist' = s.h_hist
    /\ UNCHANGED <<qcVars, auxVars>>

-----------------------------------------------------------------------------
(* Paths and existence checks                                              *)

\* qc_error_path: qc_errors/<src_blend>.txt
qc_error_path(src_blend) == <<"qc_errors", src_blend \o DOT_TXT>>

\* _get_generic_render_path
get_generic_render_path(src_name, subpath) ==
    LET base0 == IF EndsWith(Lower(src_name), DOT_BLEND)
                 THEN SubSeq(src_name, 1, Len(src_name) - 6)
                 ELSE src_name
        base  == IF base0[Len(base0)] = "."
                 THEN SubSeq(base0, 1, Len(base0) - 1) ELSE base0
    IN  <<subpath, base \o DOT_PNG>>

get_large_render_path(src_name) ==
    get_generic_render_path(src_name, "render_full")

get_small_render_path(src_name) ==
    get_generic_render_path(src_name, "render_small")

\* cache_os_paths: every .txt/.png/.jpg/.jpeg file of the three folders
cache_os_paths(s) ==
    {qc_error_path(b) : b \in {x \in DOMAIN s.qc_files : s.qc_files[x].present}}
    \cup s.render_files

\* renders_exist_for_row
renders_exist_for_row(s, src_name) ==
    LET lg_path == get_large_render_path(src_name)
        sm_path == get_small_render_path(src_name)
    IN  IF s._EXISTING_FILE_CACHE # {}
        THEN lg_path \in s._EXISTING_FILE_CACHE
             /\ sm_path \in s._EXISTING_FILE_CACHE
        ELSE lg_path \in s.render_files /\ sm_path \in s.render_files

\* read_qc_error
read_qc_error(s, src_blend) ==
    IF /\ s._EXISTING_FILE_CACHE # {}
       /\ qc_error_path(src_blend) \notin s._EXISTING_FILE_CACHE
    THEN <<>>
    ELSE IF s.qc_files[src_blend].present THEN s.qc_files[src_blend].text
    ELSE <<>>

\* save_qc_error, variant that writes over an existing file
save_qc_error_overwrite(files, src_blend, qc_error) ==
    IF Len(qc_error) > 0
    THEN [files EXCEPT ![src_blend] = File(qc_error)]
    ELSE files

\* save_qc_error: written only when the text is non-empty and no file exists
save_qc_error(files, src_blend, qc_error) ==
    IF Len(qc_error) > 0 /\ ~files[src_blend].present
    THEN [files EXCEPT ![src_blend] = File(qc_error)]
    ELSE files

\* row.qc_error = text, with the property's update callback update_qc_error
SetQcError(s, i, text) ==
    [s EXCEPT !.file_list[i].qc_error = text,
              !.qc_files = save_qc_error(@, s.file_list[i].src_blend, text)]

\* extend_qc_error(row, apply_error, increment) on row i of the list
AssignExtended(s, i, r) ==
    IF r.ret = "True" THEN SetQcError(s, i, r.qc_error) ELSE s

ExtendRow(s, i, apply_error, increment) ==
    AssignExtended(s, i, extend_qc_error(s.file_list[i].qc_error,
                                         apply_error, increment))

-----------------------------------------------------------------------------
(* Registry                                                                *)

HasCol(header, name) == \E i \in DOMAIN header : header[i] = name

\* load_csv_metadata: the dictionary built from the rows, walking
\* reversed(all_rows[:-1]); later assignments to a key overwrite earlier ones.
RECURSIVE CsvWalk(_, _, _, _)
CsvWalk(rows, i, data, email_cache) ==
    IF i < 1 THEN [raised |-> FALSE, data |-> data]
    ELSE LET header == rows[1]
             row == rows[i]
         IN  IF \/ ~HasCol(header, COL_URL) \/ ~HasCol(header, COL_EMAIL)
                \/ \E c \in {COL_FILENAME, COL_FULL_NAME, COL_COUNTRY,
                              COL_URL, COL_EMAIL} :
                       IndexOf(header, c) > Len(row)
             THEN [raised |-> TRUE, data |-> data]
             ELSE LET key == row[IndexOf(header, COL_FILENAME)]
                      email == row[IndexOf(header, COL_EMAIL)]
                      rec == [user_name |-> row[IndexOf(header, COL_FULL_NAME)],
                              country |-> row[IndexOf(header, COL_COUNTRY)],
                              url |-> row[IndexOf(header, COL_URL)],
                              latest |-> email \notin email_cache]
                      data2 == [k \in DOMAIN data \cup {key} |->
                                  IF k = key THEN rec ELSE data[k]]
                  IN  CsvWalk(rows, i - 1, data2, email_cache \cup {email})

\* load_csv_metadata: [raised, data]; _FORM_DATA is assigned only when the
\* file exists and no exception was raised.
load_csv_metadata(s) ==
    IF ~s.tsv.present THEN [raised |-> FALSE, data |-> s._FORM_DATA]
    ELSE IF Len(s.tsv.rows) = 0 THEN [raised |-> TRUE, data |-> s._FORM_DATA]
    ELSE LET header == s.tsv.rows[1]
         IN  IF \/ ~HasCol(header, COL_FILENAME)
                \/ ~HasCol(header, COL_FULL_NAME)
                \/ ~HasCol(header, COL_COUNTRY)
             THEN [raised |-> TRUE, data |-> s._FORM_DATA]
             ELSE LET w == CsvWalk(s.tsv.rows, Len(s.tsv.rows) - 1,
                                   <<>>, {})
                  IN  IF w.raised
                      THEN [raised |-> TRUE, data |-> s._FORM_DATA]
                      ELSE w

\* get_data_for_blend: "found" with the record, "none", or "raise" (the
\* similarity fallback calls SM, a name the module never binds, so it raises
\* NameError as soon as _FORM_DATA has a key to compare with).
get_data_for_blend(form_data, blend) ==
    LET se == SplitExt(blend)
        stripped == SubSeq(se[1], 1, Len(se[1]) - 4) \o se[2]
    IN  IF blend \in DOMAIN form_data
        THEN [status |-> "found", data |-> form_data[blend]]
        ELSE IF stripped \in DOMAIN form_data
        THEN [status |-> "found", data |-> form_data[stripped]]
        ELSE IF DOMAIN form_data # {}
        THEN [status |-> "raise", data |-> <<>>]
        ELSE [status |-> "none", data |-> <<>>]
-----------------------------------------------------------------------------
(* Rebuild: update_source_folder                                           *)

\* get_blend_file_list
get_blend_file_list(s) ==
    Sorted({b \in s.src_folder : EndsWith(Lower(b), DOT_BLEND)})

NewRow(blend, form_id) ==
    [src_blend |-> blend, src_file_id |-> form_id, qc_error |-> <<>>,
     queue_status |-> NOT_QUEUED, render_exists |-> FALSE,
     has_form_match |-> FALSE, user_name |-> <<>>, country |-> <<>>]

\* the name the renders of a row are written under
OutName(row) ==
    IF output_by_id /\ Len(row.src_file_id) > 0
    THEN row.src_file_id ELSE row.src_blend

\* the form id from the raw url (lines 1884-1891)
FormIdOfSplit(spl) == IF Len(spl) = 2 THEN spl[2] ELSE <<>>

FormId(d) ==
    FormIdOfSplit(IF d.status = "found" /\ Len(d.data.url) > 0
                  THEN SplitStr(d.data.url, URL_ID_SEP) ELSE <<>>)

\* the filter's "continue" (lines 1900-1917)
FilteredOut(f, qc_err, render_exists) ==
    IF f = FILTER_ALL THEN FALSE
    ELSE IF f = FILTER_MISSING THEN render_exists
    ELSE IF f = FILTER_ANY_QC THEN Len(qc_err) = 0
    ELSE \/ Len(qc_err) = 0
         \/ ~Contains(qc_err, SubSeq(f, 4, Len(f)))

\* lines 1928-1932 on row i
RowFormIdTag(s, i, form_id) ==
    IF Len(form_id) = 0
    THEN ExtendRow(s, i, ERR_NO_FORM_ID, FALSE)
    ELSE IF Contains(s.file_list[i].qc_error, ERR_NO_FORM_ID)
    THEN SetQcError(s, i, ReplaceWithEmpty(s.file_list[i].qc_error,
                                           ERR_NO_FORM_ID))
    ELSE s

\* lines 1938-1939 on row i
RowLatestTag(s, i, d) ==
    IF ~d.data.latest THEN ExtendRow(s, i, ERR_NOT_LATEST_ENTRY, FALSE) ELSE s

\* lines 1934-1939 on row i
RowFormData(s, i, d) ==
    IF d.status # "found" THEN s
    ELSE RowLatestTag([s EXCEPT !.file_list[i].user_name = d.data.user_name,
                                !.file_list[i].country = d.data.country],
                      i, d)

\* lines 1941-1942 on row i
RowFlags(s, i, d, render_exists) ==
    [s EXCEPT !.file_list[i].has_form_match = (d.status = "found"),
              !.file_list[i].render_exists = render_exists]

\* lines 1921-1942: the row is added and filled
FillRow(s, i, blend, d, form_id, qc_err, render_exists) ==
    RowFlags(
        RowFormData(
            RowFormIdTag(
                SetQcError([s EXCEPT !.file_list =
                                Append(@, NewRow(blend, form_id))],
                           i, qc_err),
                i, form_id),
            i, d),
        i, d, render_exists)

AddRowFiltered(s, blend, d, form_id, qc_err, render_exists) ==
    IF FilteredOut(s.blend_filter, qc_err, render_exists)
    THEN [raised |-> FALSE, s |-> s]
    ELSE [raised |-> FALSE,
          s |-> FillRow(s, Len(s.file_list) + 1, blend, d, form_id, qc_err,
                        render_exists)]

AddRowWithId(s, blend, d, form_id) ==
    AddRowFiltered(s, blend, d, form_id, read_qc_error(s, blend),
                   renders_exist_for_row(s,
                       IF output_by_id /\ Len(form_id) > 0
                       THEN form_id ELSE blend))

AddRowWithData(s, blend, d) ==
    IF d.status = "raise" THEN [raised |-> TRUE, s |-> s]
    ELSE AddRowWithId(s, blend, d, FormId(d))

\* One iteration of the row loop of update_source_folder: [raised, s]
AddRow(s, blend) ==
    AddRowWithData(s, blend, get_data_for_blend(s._FORM_DATA, blend))

\* the row loop, from row k of blend_files on
RECURSIVE BuildRows(_, _, _)
BuildRows(r, blend_files, k) ==
    IF r.raised \/ k > Len(blend_files) THEN r
    ELSE BuildRows(AddRow(r.s, blend_files[k]), blend_files, k + 1)

\* lines 1949-1962: the cache is dropped and file_list_index assigned
FinishRebuild(s) ==
    IF Len(s.file_list) = 0 THEN [s |-> s, activate |-> FALSE]
    ELSE IF s.file_list_index >= Len(s.file_list)
    THEN [s |-> [s EXCEPT !.file_list_index = Len(s.file_list) - 1],
          activate |-> TRUE]
    ELSE [s |-> s, activate |-> TRUE]

AfterRows(b) ==
    IF b.raised THEN [s |-> b.s, activate |-> FALSE]
    ELSE FinishRebuild([b.s EXCEPT !._EXISTING_FILE_CACHE = {}])

AfterCsv(s0, csv) ==
    IF csv.raised
    THEN [s |-> [s0 EXCEPT !.h_hist.csv = "raised"], activate |-> FALSE]
    ELSE AfterRows(BuildRows(
             [raised |-> FALSE,
              s |-> [s0 EXCEPT !._FORM_DATA = csv.data,
                               !._EXISTING_FILE_CACHE = cache_os_paths(s0),
                               !.h_hist.csv = "loaded"]],
             get_blend_file_list(s0), 1))

\* update_source_folder up to the assignment of file_list_index:
\* [s, activate]; activate says that file_list_index was assigned (which
\* runs update_folderset_list_index).  An exception ends the handler where
\* it is raised; the host reports it and goes on.
Rebuild(s0) == AfterCsv(s0, load_csv_metadata(s0))

update_source_folder(s) ==
    Rebuild([s EXCEPT !.file_list = <<>>, !.h_hist.done = {}])

-----------------------------------------------------------------------------
(* Render queue bookkeeping                                                *)

\* the row props.file_list[props.file_list_index] (0-based index)
ActiveRow(s) == s.file_list[s.file_list_index + 1]

IndexValid(s) ==
    s.file_list_index >= 0 /\ s.file_list_index < Len(s.file_list)

\* queue_all_files, variant that queues rows whatever their QC tags
queue_all_files_any(s) ==
    [s EXCEPT !.file_list =
        [i \in DOMAIN s.file_list |->
            [s.file_list[i] EXCEPT !.queue_status =
                IF s.file_list[i].render_exists THEN SKIP ELSE READY]]]

\* queue_all_files
queue_all_files(s) ==
    [s EXCEPT !.file_list =
        [i \in DOMAIN s.file_list |->
            [s.file_list[i] EXCEPT !.queue_status =
                IF Len(s.file_list[i].qc_error) # 0
                   \/ s.file_list[i].render_exists
                THEN SKIP ELSE READY]]]

\* queue_all_files, with the rows it leaves recorded
\* a queue run is asked for (history only)
RunStart(s) ==
    [s EXCEPT !.h_hist.passes = [b \in Blends |-> 0],
              !.h_hist.done = {}]

Recorded(t) == [RunStart(t) EXCEPT !.h_hist.queued = t.file_list]

QueueAll(s) == Recorded(queue_all_files(s))

\* render_open_file, the part before initiate_render_queue
render_open_file_mark(s) ==
    [RunStart(s) EXCEPT !.file_list =
        [i \in DOMAIN s.file_list |->
            [s.file_list[i] EXCEPT !.queue_status =
                IF i = s.file_list_index + 1 THEN READY ELSE SKIP]]]

\* update_scene_stats
update_scene_stats(s) ==
    LET n(P(_)) == Cardinality({i \in DOMAIN s.file_list : P(s.file_list[i])})
        any(row) == TRUE
        rendered(row) == row.render_exists
        tagged(row) == Len(row.qc_error) > 0
        unmatched(row) == ~row.has_form_match
    IN  [s EXCEPT !.scene_stats =
            [blends |-> n(any), rendered |-> n(rendered),
             num_qc_error |-> n(tagged), no_form_match |-> n(unmatched)]]

\* single_render_complete leaving queue_status as it is
single_render_complete_unmarked(s) ==
    LET i == s.file_list_index + 1
    IN  [s EXCEPT !.file_list[i].render_exists =
                      renders_exist_for_row(s, OutName(s.file_list[i]))]

\* single_render_complete
single_render_complete(s) ==
    LET i == s.file_list_index + 1
    IN  update_scene_stats(
            [s EXCEPT !.file_list[i].queue_status = DONE,
                      !.file_list[i].render_exists =
                          renders_exist_for_row(s, OutName(s.file_list[i]))])

\* crp_render_complete_handler without the test of _MID_RENDER
crp_render_complete_handler_mid(s) ==
    IF ~s.render_running THEN s
    ELSE single_render_complete(s)

\* crp_render_complete_handler
crp_render_complete_handler(s) ==
    IF s._MID_RENDER THEN s
    ELSE IF ~s.render_running THEN s
    ELSE single_render_complete(s)

\* setup_small_render: the output path without ".png"
setup_small_render(s) ==
    LET p == get_small_render_path(OutName(ActiveRow(s)))
    IN  [s EXCEPT !.filepath = <<p[1], SubSeq(p[2], 1, Len(p[2]) - 4)>>]

\* setup_large_render: the output path without ".png"
setup_large_render(s) ==
    LET p == get_large_render_path(OutName(ActiveRow(s)))
    IN  [s EXCEPT !.filepath = <<p[1], SubSeq(p[2], 1, Len(p[2]) - 4)>>]

\* the host writes the still image of a finished render
WriteStill(s, path) ==
    [s EXCEPT !.render_files = @ \cup {<<path[1], path[2] \o DOT_PNG>>}]

\* Variant of the skip test with the crash ceiling one higher
Disqualified_loose(row) ==
    \/ qc_error_count(row.qc_error, ERR_CRASHED) > 3
    \/ Contains(row.qc_error, ERR_NOT_LATEST_ENTRY)
    \/ Contains(Lower(row.qc_error), ERR_SKIP)

\* the rows render_next_in_queue passes over
Disqualified(row) ==
    \/ qc_error_count(row.qc_error, ERR_CRASHED) > 2
    \/ Contains(row.qc_error, ERR_NOT_LATEST_ENTRY)
    \/ Contains(Lower(row.qc_error), ERR_SKIP)

\* render_next_in_queue with the scan beginning at file_list_index
NextId_from_cursor(s) ==
    LET ok == {i \in DOMAIN s.file_list :
                  /\ i >= s.file_list_index + 1
                  /\ ~Disqualified(s.file_list[i])
                  /\ s.file_list[i].queue_status = READY}
    IN  IF ok = {} THEN 0 ELSE CHOOSE i \in ok : \A j \in ok : i <= j

\* render_next_in_queue: next_id (1-based position), 0 for None
NextId(s) ==
    LET ok == {i \in DOMAIN s.file_list :
                  ~Disqualified(s.file_list[i])
                  /\ s.file_list[i].queue_status = READY}
    IN  IF ok = {} THEN 0 ELSE CHOOSE i \in ok : \A j \in ok : i <= j

-----------------------------------------------------------------------------
(* Activation and the handlers that run one into the other                 *)

\* load_crash_cache, the loop over the rows: the first row of crashed_blend
\* gets the crashed tag
TagRows(s, hits, increment) ==
    IF hits = {} THEN s
    ELSE ExtendRow(s, CHOOSE i \in hits : \A j \in hits : i <= j,
                   ERR_CRASHED, increment)

TagFirstRowOf(s, crashed_blend, increment) ==
    TagRows(s, {i \in DOMAIN s.file_list :
                   s.file_list[i].src_blend = crashed_blend}, increment)

\* load_crash_cache
load_crash_cache(s) ==
    IF ~s.crash_cache.present THEN s
    ELSE TagFirstRowOf([s EXCEPT !.crash_cache = NoMarker],
                       s.crash_cache.text, TRUE)

\* clear_blend_crash_cach
clear_blend_crash_cach(s) == [s EXCEPT !.crash_cache = NoMarker]

\* The operator or script that started a queue run returns.  startup.py then
\* prints "Renders finished!" and the script is over.
RunEnd(s) ==
    [s EXCEPT !.run = "none", !.remaining = 0,
              !.pc = IF s.headless THEN "exited" ELSE "idle",
              !.restart_file = IF s.headless THEN FALSE ELSE @]

\* update_folderset_list_index up to the host's library load:
\* save_blend_to_crash_cache.  With the index outside the list the handler
\* ends with IndexError after load_crash_cache.
save_blend_to_crash_cache(s1, ret) ==
    IF IndexValid(s1)
    THEN [s1 EXCEPT !.crash_cache = Marker(ActiveRow(s1).src_blend),
                    !.pc = "loading", !.act_ret = ret,
                    !.h_hist.loads[ActiveRow(s1).src_blend] = @ + 1]
    ELSE [s1 EXCEPT !.pc = "raised", !.act_ret = ret]

Activate(s, ret) == save_blend_to_crash_cache(load_crash_cache(s), ret)

\* render_next_in_queue has returned to its caller: the single branch of
\* initiate_render_queue, the body of its batch loop, or the timer callback.
AfterRenderNext(s) ==
    IF s.run = "single" THEN RunEnd([s EXCEPT !.render_running = FALSE])
    ELSE IF s.run = "batch"
    THEN [single_render_complete(s) EXCEPT !.pc = "batch"]
    ELSE [s EXCEPT !.pc = "idle"]

\* render_next_in_queue up to the activation it triggers
\* the ready rows the scan went past before it stopped at position k
\* (history only)
Passed(s, k) ==
    [s EXCEPT !.h_hist.passed =
        @ \cup {s.file_list[i] : i \in {j \in DOMAIN s.file_list :
                    j < k /\ s.file_list[j].queue_status = READY}}]

RenderRow(s, next_id) ==
    IF next_id = 0
    THEN AfterRenderNext(
             setup_large_render([Passed(s, Len(s.file_list) + 1)
                                    EXCEPT !.render_running = FALSE]))
    ELSE Activate([Passed(s, next_id) EXCEPT
                      !.file_list_index = next_id - 1,
                      !.h_hist.sel = @ \cup {s.file_list[next_id]}],
                  "render")

render_next_in_queue(s) == RenderRow(s, NextId(s))

\* the loop "for row in remaining_renders" of initiate_render_queue, at the
\* top of an iteration
BatchLoop(s) ==
    IF s.remaining = 0 THEN RunEnd([s EXCEPT !.render_running = FALSE])
    ELSE IF ~s.render_running THEN RunEnd(s)
    ELSE render_next_in_queue([s EXCEPT !.remaining = @ - 1])

\* initiate_render_queue
RunQueue(s, n) ==
    IF n = 0 THEN RunEnd([s EXCEPT !.render_running = FALSE])
    ELSE IF n <= 1
    THEN render_next_in_queue([s EXCEPT !.render_running = TRUE,
                                        !.run = "single"])
    ELSE BatchLoop([s EXCEPT !.render_running = TRUE, !.run = "batch",
                             !.remaining = n])

initiate_render_queue(s) ==
    RunQueue(s, Cardinality({i \in DOMAIN s.file_list :
                                s.file_list[i].queue_status = READY}))

\* update_folderset_list_index has returned (or ended with an exception, which
\* the host prints): the code that assigned file_list_index goes on.
Continue(s, ret) ==
    IF ret = "render"
    THEN [setup_small_render(s) EXCEPT
              !._MID_RENDER = TRUE,
              !.pc = "render_small",
              !.h_hist.passes[ActiveRow(s).src_blend] = @ + 1]
    ELSE IF ret = "startup"
    THEN IF Len(s.file_list) = 0 THEN [s EXCEPT !.pc = "exited"]
         ELSE initiate_render_queue(QueueAll(s))
    ELSE [s EXCEPT !.pc = "idle"]

-----------------------------------------------------------------------------
(* Spec: the process                                                       *)

MaxCrashes == 3

MaxOps == 3

NoJob == [active |-> FALSE, filepath |-> <<>>, blend |-> <<>>]

Filters == {FILTER_ALL, FILTER_MISSING, FILTER_ANY_QC,
            <<"q","c","_">> \o ERR_CRASHED}

\* What the host does with each source file: "ok" loads and renders,
\* "crash" ends the process while the file is loaded, "nobase" loads a
\* scene without an eligible base mesh, "render_crash" ends the process
\* during one of its render passes, "noload" makes load_active_selection
\* raise (the file is not found where the list says, or no scene comes out
\* of it), "render_raise" loads and lets the thumbnail render call raise.
KindWorlds ==
    { [b \in Blends |-> "ok"],
      [b \in Blends |-> IF b = BlendA THEN "crash" ELSE "ok"],
      [b \in Blends |-> IF b = BlendB THEN "crash" ELSE "ok"],
      [b \in Blends |-> IF b = BlendB THEN "nobase" ELSE "ok"],
      [b \in Blends |-> IF b = BlendA THEN "render_crash" ELSE "ok"],
      [b \in Blends |-> IF b = BlendB THEN "noload" ELSE "ok"] }

\* Texts the operator types into the "Assign QC Error" dialog
MarkTexts ==
    { <<>>,
      ERR_CRASHED \o <<":", "2">>,
      ERR_CRASHED \o <<":", "3">>,
      <<"S","k","i","p">> }

\* The QC files an earlier session left: a.blend was marked "crashed:3".
QcMarkedBefore ==
    [b \in Blends |-> IF b = BlendA THEN File(ERR_CRASHED \o <<":", "3">>)
                                     ELSE NoFile]

\* The process is not running and nothing has been written yet.
MainOff ==
    /\ src_folder = Blends
    /\ scene_kind \in {[b \in Blends |-> "ok"]}
    /\ tsv = TsvFull
    /\ qc_files = [b \in Blends |-> NoFile]
    /\ crash_cache = NoMarker
    /\ render_files = {}
    /\ pc = "off"
    /\ blend_filter = FILTER_ALL
    /\ file_list = <<>>
    /\ file_list_index = 0
    /\ render_running = FALSE
    /\ _MID_RENDER = FALSE
    /\ _EXISTING_FILE_CACHE = {}
    /\ _FORM_DATA = <<>>
    /\ filepath = <<>>
    /\ loaded_scene = <<>>
    /\ act_ret = "idle"
    /\ run = "none"
    /\ remaining = 0
    /\ job = NoJob
    /\ headless = FALSE
    /\ restart_file = FALSE
    /\ scene_stats = NoStats
    /\ h_crashes = 0
    /\ h_ops = 0
    /\ h_hist = NoHist

\* The ledger variables are not used in Spec.
QCIdle ==
    /\ q_bag = <<>> /\ q_init = <<>> /\ q_ret = "None"
    /\ q_last = [apply |-> <<>>, inc |-> FALSE]
    /\ q_prevbag = <<>> /\ q_twice = FALSE
    /\ q_run = [tag |-> <<>>, n |-> 0, ok |-> FALSE]
    /\ q_calls = 0

\* Before get_interest_objects is called: nothing returned, nothing done.
\*   ret              "tuple" (line 845), "None" (bare return, line 787)
\*   base_donut       position in o_scene of the returned subject, 0 = None
\*   from_icing       "True" / "False" / "None"
\*   icing_candidates positions of the decoration pool, in iteration order
\*   parent           ob.parent of every object after the call
\*   qc_error         this_row.qc_error after the call (empty before it)
NoOut ==
    [called |-> FALSE, ret |-> "None", base_donut |-> 0, from_icing |-> "None",
     icing_candidates |-> <<>>, parent |-> <<>>, qc_error |-> <<>>]

\* The selector variables are not used in Spec and SpecQC.
SelIdle ==
    /\ o_scene = <<>> /\ o_out = NoOut

\* No scene has been linked; the variables are not used outside SpecView.
\*   new   the scene libraries.load has just linked
\*   old   the scene the placeholder referenced when the load began
\*   ok    the last step completed a load_active_selection
\*   links how often libraries.load was called
\*   failed  a load_active_selection has raised
NoScene == [blend |-> <<>>, n |-> 0]

NoLoad ==
    [new |-> NoScene, old |-> NoScene, ok |-> FALSE, links |-> 0,
     failed |-> FALSE]

ViewIdle ==
    /\ w_scenes = {} /\ w_objs = <<>> /\ w_pc = "idle" /\ w_load = NoLoad

\* The resolution variables are not used outside SpecRes.
\*   mode  how the run was started: "single", "batch" or "timer"
\*   left  the ready rows left to render
\*   conf  the resolution the scene had when the run was started
\*   cfg   the resolution the scene had when the run's last thumbnail pass
\*         was set up
\*   full  the resolution of the last full pass
\*   runs  the queue runs started so far
\*   sets  how often the operator changed the resolution
\*   ended a queue run has ended and nothing was changed since
NoRun ==
    [mode |-> "none", left |-> 0, conf |-> <<>>, cfg |-> <<>>, full |-> <<>>,
     runs |-> 0, sets |-> 0, ended |-> FALSE]

NoMeasure == [done |-> FALSE, avg_pos |-> <<>>, xy_scale |-> <<>>]

BoxIdle == g_bounds = <<>> /\ g_out = NoMeasure

ResIdle ==
    /\ resolution = <<>> /\ PRIOR_RENDER = <<>> /\ r_pc = "idle"
    /\ r_run = NoRun

Init ==
    /\ QCIdle
    /\ SelIdle
    /\ ViewIdle
    /\ ResIdle
    /\ BoxIdle
    /\ src_folder = Blends
    /\ scene_kind \in KindWorlds
    /\ tsv \in {TsvFull, TsvAbsent, TsvLast, TsvOne}
    /\ tsv \in {TsvLast, TsvOne} => scene_kind = [b \in Blends |-> "ok"]
    /\ qc_files \in {[b \in Blends |-> NoFile], QcMarkedBefore}
    /\ qc_files = QcMarkedBefore
          => tsv = TsvFull /\ scene_kind = [b \in Blends |-> "ok"]
    /\ crash_cache = NoMarker
    /\ render_files = {}
    /\ pc = "off"
    /\ blend_filter = FILTER_ALL
    /\ file_list = <<>>
    /\ file_list_index = 0
    /\ render_running = FALSE
    /\ _MID_RENDER = FALSE
    /\ _EXISTING_FILE_CACHE = {}
    /\ _FORM_DATA = <<>>
    /\ filepath = <<>>
    /\ loaded_scene = <<>>
    /\ act_ret = "idle"
    /\ run = "none"
    /\ remaining = 0
    /\ job = NoJob
    /\ headless \in BOOLEAN
    /\ restart_file = headless
    /\ scene_stats = NoStats
    /\ h_crashes = 0
    /\ h_ops = 0
    /\ h_hist = NoHist

\* the assignment of file_list_index at the end of update_source_folder
\* triggers the activation; without it the caller goes on at once
AfterRebuild(r, ret) ==
    IF r.activate THEN Activate(r.s, ret) ELSE Continue(r.s, ret)

\* The program's state at the beginning of a step other than the start
Now == [State EXCEPT !.h_hist.fresh = FALSE]

\* The process ends abnormally: everything but the files is lost.
Crashed(s) ==
    [s EXCEPT !.pc = "off", !.file_list = <<>>, !.file_list_index = 0,
              !.render_running = FALSE, !._MID_RENDER = FALSE,
              !._EXISTING_FILE_CACHE = {}, !._FORM_DATA = <<>>,
              !.filepath = <<>>, !.loaded_scene = <<>>, !.act_ret = "idle",
              !.scene_stats = NoStats,
              !.run = "none", !.remaining = 0, !.job = NoJob,
              !.crash_cache.old = s.crash_cache.present,
              !.h_hist.rebuilds = 0, !.h_hist.prev = <<>>,
              !.h_crashes = @ + 1]

\* The host starts (by hand, or restarted by the wrapper after a crash) and
\* props.source_folder is set: update_source_folder runs, then the activation
\* of the row under the cursor up to the library load.  The filter is the
\* one saved with the scene the process opens.
StartWith(f) ==
    /\ pc = "off"
    /\ Commit(AfterRebuild(
          update_source_folder(
              [State EXCEPT
                  !.blend_filter = f,
                  !.h_hist.fresh = TRUE,
                  !.h_hist.rebuilds = 1,
                  !.h_hist.prev = <<>>,
                  !.h_hist.boot =
                      [marker |-> crash_cache,
                       bag |-> IF /\ crash_cache.present
                                  /\ crash_cache.text \in Blends
                                  /\ qc_files[crash_cache.text].present
                               THEN qc_files[crash_cache.text].text
                               ELSE <<>>]]),
          IF headless THEN "startup" ELSE "idle"))

Start == \E f \in Filters : StartWith(f)

\* The activation ends with an exception (the list index is outside the
\* list): the marker stays as it is, and the caller goes on.
LoadRaises ==
    /\ pc = "raised"
    /\ Commit(Continue([Now EXCEPT !.h_hist.streak = NoHist.streak], act_ret))

\* The host crashes while it loads the library.
LoadCrash ==
    /\ pc = "loading"
    /\ ActiveRow(State).src_blend \in src_folder
    /\ scene_kind[ActiveRow(State).src_blend] = "crash"
    /\ h_crashes < MaxCrashes
    /\ Commit(Crashed(
          [Now EXCEPT !.h_hist.streak =
              [blend |-> ActiveRow(State).src_blend,
               k |-> IF h_hist.streak.blend = ActiveRow(State).src_blend
                     THEN h_hist.streak.k + 1 ELSE 1]]))

\* LoadFails with the exception leaving the assignment of file_list_index:
\* the queue run in progress is over where it stands.
LoadFails_halts ==
    /\ pc = "loading"
    /\ scene_kind[ActiveRow(State).src_blend] = "noload"
    /\ Commit(RunEnd([Now EXCEPT !.h_hist.streak = NoHist.streak]))

\* load_active_selection raises (RuntimeError "Blend file not found", or no
\* scene could be fetched) before it replaces anything: the activation ends
\* there, the earlier scene stays loaded, the marker stays, and the caller
\* goes on.
LoadFails ==
    /\ pc = "loading"
    /\ scene_kind[ActiveRow(State).src_blend] = "noload"
    /\ Commit(Continue([Now EXCEPT !.h_hist.streak = NoHist.streak], act_ret))

\* The scene loads but holds no base candidate: get_interest_objects records
\* the tag and returns None, which process_as_donut fails to unpack
\* (TypeError); the activation ends there and the marker stays.
LoadNoBase ==
    /\ pc = "loading"
    /\ ActiveRow(State).src_blend \in src_folder
    /\ scene_kind[ActiveRow(State).src_blend] = "nobase"
    /\ Commit(Continue(
          ExtendRow([Now EXCEPT !.loaded_scene = ActiveRow(State).src_blend,
                                !.h_hist.streak = NoHist.streak],
                    file_list_index + 1, ERR_NO_BASE_MESH, FALSE),
          act_ret))

\* load_active_row completes; clear_blend_crash_cach removes the marker.
LoadOk ==
    /\ pc = "loading"
    /\ ActiveRow(State).src_blend \in src_folder
    /\ scene_kind[ActiveRow(State).src_blend]
          \in {"ok", "render_crash", "render_raise"}
    /\ Commit(Continue(
          clear_blend_crash_cach(
              update_scene_stats(
                  [Now EXCEPT !.loaded_scene = ActiveRow(State).src_blend,
                              !.h_hist.streak = NoHist.streak])),
          act_ret))

\* The host crashes during a render pass.
RenderCrash ==
    /\ pc \in {"render_small", "render_full"}
    /\ loaded_scene \in Blends
    /\ scene_kind[loaded_scene] = "render_crash"
    /\ h_crashes < MaxCrashes
    /\ Commit(Crashed(Now))

\* render_next_in_queue between its two render calls
SmallDone(s) ==
    setup_large_render(
        [crp_render_complete_handler(WriteStill(s, s.filepath))
            EXCEPT !._MID_RENDER = FALSE])

\* the host takes the full pass as a background job
StartJob(s) ==
    [s EXCEPT !.job = [active |-> TRUE, filepath |-> s.filepath,
                       blend |-> ActiveRow(s).src_blend]]

\* The thumbnail pass of render_next_in_queue finishes: the image is
\* written, the render_complete handler runs, then the full pass is set up
\* and started (EXEC_DEFAULT, or INVOKE_DEFAULT when interactive, which the
\* host may run as a background job and return from at once).
RenderSmallDone ==
    /\ pc = "render_small"
    /\ \/ Commit([SmallDone(Now) EXCEPT !.pc = "render_full"])
       \/ /\ run = "single"
          /\ Commit(AfterRenderNext(StartJob(SmallDone(Now))))

\* The full pass finishes inside the render call.
RenderFullDone ==
    /\ pc = "render_full"
    /\ Commit(AfterRenderNext(crp_render_complete_handler(
          [WriteStill(Now, filepath) EXCEPT
              !.h_hist.done = @ \cup {ActiveRow(State).src_blend}])))

\* The background render job finishes.
RenderJobDone ==
    /\ job.active
    /\ pc \in {"idle", "exited"}
    /\ Commit(crp_render_complete_handler(
          [WriteStill(Now, job.filepath) EXCEPT
              !.job = NoJob,
              !.h_hist.done = @ \cup {job.blend}]))

\* The batch loop of initiate_render_queue takes its next iteration.
BatchNext ==
    /\ pc = "batch"
    /\ Commit(BatchLoop(Now))

\* render_timer_callback without the test of render_running at its top
TimerTick_ignores_flag ==
    /\ pc = "idle" /\ run = "timer" /\ ~job.active
    /\ IF \A i \in DOMAIN file_list : file_list[i].queue_status # READY
       THEN Commit([Now EXCEPT !.render_running = FALSE, !.run = "none"])
       ELSE Commit(render_next_in_queue(Now))

\* render_timer_callback
TimerTick ==
    /\ pc = "idle" /\ run = "timer" /\ ~job.active
    /\ IF ~render_running
       THEN Commit([Now EXCEPT !.run = "none"])
       ELSE IF \A i \in DOMAIN file_list : file_list[i].queue_status # READY
       THEN Commit([Now EXCEPT !.render_running = FALSE, !.run = "none"])
       ELSE Commit(render_next_in_queue(Now))

\* SCENE_OT_render_all_interactive.modal on ESC or a mouse button, or the
\* panel's "Cancel render" toggle
CancelRender ==
    /\ pc = "idle" /\ run = "timer" /\ render_running
    /\ Commit([Now EXCEPT !.render_running = FALSE])

\* The operator is at the panel and nothing is running.
OperatorReady ==
    /\ pc = "idle" /\ run = "none" /\ ~job.active /\ ~headless
    /\ h_ops < MaxOps

Op == [Now EXCEPT !.h_ops = @ + 1, !.h_hist.rebuilds = 0, !.h_hist.prev = <<>>]

\* SCENE_OT_open_next_file
OpenNextFile ==
    /\ OperatorReady
    /\ Commit(Activate(
          [Op EXCEPT !.file_list_index =
              IF file_list_index >= Len(file_list) - 1 THEN 0
              ELSE file_list_index + 1],
          "idle"))

\* SCENE_OT_open_previous_file
OpenPreviousFile ==
    /\ OperatorReady
    /\ Commit(Activate(
          [Op EXCEPT !.file_list_index =
              IF file_list_index <= 0 THEN Len(file_list) - 1
              ELSE file_list_index - 1],
          "idle"))

\* SCENE_OT_open_random_file: random.randint(0, len - 1) raises ValueError
\* for an empty list, and the operator ends there
OpenRandomFile ==
    /\ OperatorReady
    /\ IF Len(file_list) = 0 THEN Commit(Op)
       ELSE \E ind \in 0 .. Len(file_list) - 1 :
               Commit(Activate([Op EXCEPT !.file_list_index = ind], "idle"))

\* SCENE_OT_reload
Reload ==
    /\ OperatorReady
    /\ Commit(AfterRebuild(
          update_source_folder(
              [Op EXCEPT
                  !.h_hist.rebuilds = IF h_hist.rebuilds >= 1 THEN 2 ELSE 1,
                  !.h_hist.prev = IF h_hist.rebuilds >= 1 THEN file_list
                                  ELSE <<>>]),
          "idle"))

\* SCENE_OT_render_open_file
RenderOpenFile ==
    /\ OperatorReady
    /\ IndexValid(State)
    /\ Commit(initiate_render_queue(render_open_file_mark(Op)))

\* SCENE_OT_render_all_files
RenderAllFiles ==
    /\ OperatorReady
    /\ Commit(initiate_render_queue(QueueAll(Op)))

\* SCENE_OT_render_all_interactive.invoke
RenderAllInteractive ==
    /\ OperatorReady
    /\ Commit([QueueAll(Op) EXCEPT !.render_running = TRUE,
                                   !.run = "timer"])

\* SCENE_OT_mark_qc_error.execute
MarkQcError ==
    /\ OperatorReady
    /\ IndexValid(State)
    /\ \E text \in MarkTexts :
          Commit(SetQcError(
              [Op EXCEPT !.qc_files[ActiveRow(State).src_blend] = NoFile],
              file_list_index + 1, text))

\* SCENE_OT_delete_render.execute on the state s: the passes are removed
\* (a missing file is reported and passed over; no sprinkle pass is ever
\* written), then the flag is computed again
delete_render_files(s, checkname) ==
    [s EXCEPT !.render_files = @ \ {get_large_render_path(checkname),
                                    get_small_render_path(checkname)}]

delete_render_flag(s1, i, checkname) ==
    [s1 EXCEPT !.file_list[i].render_exists =
                   renders_exist_for_row(s1, checkname)]

\* SCENE_OT_delete_render
DeleteRender ==
    /\ OperatorReady
    /\ IndexValid(State)
    /\ Commit(delete_render_flag(
          delete_render_files(Op, OutName(ActiveRow(State))),
          file_list_index + 1, OutName(ActiveRow(State))))

Next ==
    \/ Start
    \/ LoadRaises
    \/ LoadCrash
    \/ LoadNoBase
    \/ LoadFails
    \/ LoadOk
    \/ RenderCrash
    \/ RenderSmallDone
    \/ RenderFullDone
    \/ RenderJobDone
    \/ BatchNext
    \/ TimerTick
    \/ CancelRender
    \/ OpenNextFile
    \/ OpenPreviousFile
    \/ OpenRandomFile
    \/ Reload
    \/ RenderOpenFile
    \/ RenderAllFiles
    \/ RenderAllInteractive
    \/ MarkQcError
    \/ DeleteRender

Spec == Init /\ [][Next]_vars

-----------------------------------------------------------------------------
(* Properties of the process (checked under Spec)                          *)

\* The count recorded under the tag called exactly name: the number after
\* the last ':' of the first such token, 1 for a token without ':'.
TagCount(bag, name) ==
    LET toks == NonEmpty(Split(bag, ";"))
        hits == {i \in DOMAIN toks : Split(toks[i], ":")[1] = name}
    IN  IF hits = {} THEN 0
        ELSE LET parts == Split(toks[CHOOSE i \in hits : \A j \in hits : i <= j],
                                ":")
             IN  IF Len(parts) = 1 THEN 1
                 ELSE IF IntOk(parts[Len(parts)])
                 THEN IntVal(parts[Len(parts)]) ELSE 0

RowsOf(b) == {i \in DOMAIN file_list : file_list[i].src_blend = b}

BothRendersExist(row) ==
    /\ get_large_render_path(OutName(row)) \in render_files
    /\ get_small_render_path(OutName(row)) \in render_files

\* C1: within one run of the render queue no submission is rendered more
\* than once, and queue_all_files never leaves ready a row whose renders
\* exist or whose QC tag bag is non-empty.
C1_NoDoubleRender ==
    /\ \A b \in Blends : h_hist.passes[b] <= 1
    /\ \A i \in DOMAIN h_hist.queued :
          h_hist.queued[i].queue_status = READY
              => /\ ~h_hist.queued[i].render_exists
                 /\ h_hist.queued[i].qc_error = <<>>

\* a run that has rendered two submissions, after a queue_all_files that
\* readied some rows and skipped a row with renders or tags
C1_Witness ==
    /\ Cardinality({b \in Blends : h_hist.passes[b] = 1}) >= 2
    /\ \E i \in DOMAIN h_hist.queued :
          /\ h_hist.queued[i].queue_status = SKIP
          /\ \/ h_hist.queued[i].render_exists
             \/ h_hist.queued[i].qc_error # <<>>

\* C2: once the full pass of a submission the queue rendered has finished
\* and both images exist, its queue status is done and render_exists is true
\* (single-item interactive mode and batch mode alike).
C2_RenderedRowIsDone ==
    \A i \in DOMAIN file_list :
        (/\ file_list[i].src_blend \in h_hist.done
         /\ BothRendersExist(file_list[i])
         /\ pc \in {"idle", "exited"}
         /\ ~job.active)
        => (file_list[i].queue_status = DONE /\ file_list[i].render_exists)

\* the process has started, found a marker naming a file of the source
\* folder, rebuilt the list and begun the activation of the cursor row
C3_Started ==
    /\ h_hist.fresh
    /\ pc = "loading"
    /\ h_hist.boot.marker.present
    /\ h_hist.boot.marker.text \in src_folder

C3_Recorded ==
    /\ \E i \in RowsOf(h_hist.boot.marker.text) :
          TagCount(file_list[i].qc_error, ERR_CRASHED)
              = TagCount(h_hist.boot.bag, ERR_CRASHED) + 1
    /\ ~(crash_cache.present /\ crash_cache.old)

\* C3 as stated: a marker found at the start naming a submission of the
\* source folder is turned into one more crashed count on that submission
\* and the old marker is gone, whatever filter is selected.
C3_CrashRecordedWhateverFilter == C3_Started => C3_Recorded

\* C4: while a thumbnail or full pass is in progress the marker file exists
\* and names the submission being rendered.
C4_MarkerDuringRender ==
    pc \in {"render_small", "render_full"}
        => /\ crash_cache.present
           /\ crash_cache.text = file_list[file_list_index + 1].src_blend

\* C5: under the restarting wrapper a submission that crashes the process
\* whenever it is loaded is loaded at most 3 times in total.
C5_CrashingFileLoadedAtMostThrice ==
    headless => \A b \in Blends :
                    scene_kind[b] = "crash" => h_hist.loads[b] <= 3

C7_PersistedCountIsK ==
    (/\ h_hist.fresh
     /\ pc = "loading"
     /\ h_hist.streak.k >= 1
     /\ h_hist.boot.marker.present
     /\ h_hist.boot.marker.text = h_hist.streak.blend
     /\ RowsOf(h_hist.streak.blend) # {})
    => TagCount(IF qc_files[h_hist.streak.blend].present
                THEN qc_files[h_hist.streak.blend].text ELSE <<>>,
                ERR_CRASHED) = h_hist.streak.k

\* C11: once the QC file of a submission exists, only mark_qc_error on that
\* submission changes it; mark_qc_error leaves the row's bag equal to the
\* entered text, with no file for an empty text and a file holding the text
\* otherwise.
C11_QcFileOnlyChangedByMark ==
    [][/\ \A b \in Blends :
             (qc_files[b].present /\ qc_files'[b] # qc_files[b])
                 => (MarkQcError /\ ActiveRow(State).src_blend = b)
       /\ MarkQcError =>
             \E text \in MarkTexts :
                 /\ file_list'[file_list_index + 1].qc_error = text
                 /\ qc_files'[ActiveRow(State).src_blend]
                        = IF text = <<>> THEN NoFile ELSE File(text)]_vars

\* the bag of a row was extended while its file existed (the file kept the
\* older text), after the operator had marked a row
C11_Witness ==
    /\ \E i \in DOMAIN file_list :
          /\ qc_files[file_list[i].src_blend].present
          /\ file_list[i].qc_error # qc_files[file_list[i].src_blend].text
          /\ qc_files[file_list[i].src_blend].text \in MarkTexts

\* C12: after a rebuild every data row of the registry that names a file of
\* the source folder has given its author name and country to the row of
\* that file, which has has_form_match set, and the header row is no record.
C12_RegistryRowsBecomeRecords ==
    (h_hist.fresh /\ tsv.present /\ blend_filter = FILTER_ALL)
    => /\ \A k \in 2..Len(tsv.rows) :
             tsv.rows[k][1] \in src_folder
             => \E i \in DOMAIN file_list :
                    /\ file_list[i].src_blend = tsv.rows[k][1]
                    /\ file_list[i].user_name = tsv.rows[k][2]
                    /\ file_list[i].country = tsv.rows[k][3]
                    /\ file_list[i].has_form_match
       /\ tsv.rows[1][1] \notin DOMAIN _FORM_DATA

\* C13: a rebuild that follows a rebuild, with the same folder, registry,
\* filter and settings and nothing but the first rebuild's own activation in
\* between, leaves the same ordered list of rows: same files in ascending
\* order, each once, same bags, flags and metadata.
C13_RebuildTwiceSameList ==
    (h_hist.rebuilds = 2 /\ pc = "idle")
    => /\ file_list = h_hist.prev
       /\ \A i, j \in DOMAIN file_list :
             i < j => StrLess(file_list[i].src_blend, file_list[j].src_blend)

\* both render files of a row's output name are among the files on disk
RendersOnDisk(files, row) ==
    /\ get_large_render_path(OutName(row)) \in files
    /\ get_small_render_path(OutName(row)) \in files

\* C14: whenever render_exists of a row is computed - for every row of a
\* rebuild, for the row that single_render_complete marks done, and for the
\* active row after delete_render - it is true exactly when both the
\* thumbnail and the full-resolution file of the row exist on disk then.
C14_RenderExistsIffBothFiles ==
    [][/\ (h_hist'.fresh \/ (h_ops' = h_ops + 1 /\ h_hist'.rebuilds >= 1))
          => \A i \in DOMAIN file_list' :
                 file_list'[i].render_exists
                     = RendersOnDisk(render_files', file_list'[i])
       /\ DeleteRender
          => file_list'[file_list_index + 1].render_exists
                 = RendersOnDisk(render_files', file_list'[file_list_index + 1])
       /\ \A i \in DOMAIN file_list :
             (/\ i \in DOMAIN file_list'
              /\ file_list'[i].src_blend = file_list[i].src_blend
              /\ file_list[i].queue_status # DONE
              /\ file_list'[i].queue_status = DONE)
             => file_list'[i].render_exists
                    = RendersOnDisk(render_files', file_list'[i])]_vars

-----------------------------------------------------------------------------
(* get_interest_objects: the subject of a loaded scene (SpecSel)           *)

\* Most objects of a scene in the model.
MaxObjs == 3

\* The objects of a scene, without their parent link.  polygons is
\* len(ob.data.polygons); nodes says a modifier of type NODES is present;
\* hide says the object is hidden (hide_get, hide_viewport or hide_render) or
\* bears an ineligible name; xy_scale is the planar size measured by
\* get_avg_pos_and_scale, in halves of a unit (3 is 1.5, 4 is 2.0).
ObjShapes ==
    [type : {"EMPTY"}, polygons : {0}, nodes : {FALSE},
     particle_systems : {FALSE}, hide : {FALSE}, xy_scale : {0}]
    \cup
    [type : {"MESH"}, polygons : {1, 149}, nodes : {FALSE},
     particle_systems : {FALSE}, hide : {FALSE}, xy_scale : {4}]
    \cup
    [type : {"MESH"}, polygons : {149}, nodes : {TRUE},
     particle_systems : {FALSE}, hide : {FALSE}, xy_scale : {0}]
    \cup
    [type : {"MESH"}, polygons : {150}, nodes : {FALSE},
     particle_systems : {FALSE}, hide : {FALSE}, xy_scale : {0, 3, 4}]
    \cup
    [type : {"MESH"}, polygons : {150}, nodes : {FALSE},
     particle_systems : {FALSE}, hide : {TRUE}, xy_scale : {3}]
    \cup
    [type : {"MESH"}, polygons : {150}, nodes : {FALSE},
     particle_systems : {TRUE}, hide : {FALSE}, xy_scale : {4}]

\* Following ob.parent from object i ends at an object without parent.
RECURSIVE Rooted(_, _, _)
Rooted(parent, i, k) ==
    IF parent[i] = 0 THEN TRUE
    ELSE IF k = 0 THEN FALSE
    ELSE Rooted(parent, parent[i], k - 1)

\* ob.parent of n objects, as the position of the parent in the scene (0 is
\* None): the parent links form a forest.
Parents(n) ==
    {parent \in [1..n -> 0..n] : \A i \in 1..n : Rooted(parent, i, n)}

\* The scene of the objects of the given shapes and parents, in iteration
\* order.
Scene(shapes, parent) ==
    [i \in DOMAIN shapes |->
        [type |-> shapes[i].type, polygons |-> shapes[i].polygons,
         nodes |-> shapes[i].nodes,
         particle_systems |-> shapes[i].particle_systems,
         hide |-> shapes[i].hide, xy_scale |-> shapes[i].xy_scale,
         parent |-> parent[i]]]

\* phide at line 768, for an object with a parent.
phide(sc, i) ==
    LET parent == sc[sc[i].parent]
    IN  \/ parent.hide
        \/ parent.type = "MESH" /\ parent.polygons < 2
        \/ parent.type = "EMPTY"

\* ob.parent of every object after the first loop (lines 747-782): a mesh
\* whose parent is hidden, ineligible, nearly empty or an empty loses it.
ParentsAfter(sc) ==
    [i \in DOMAIN sc |->
        IF sc[i].type = "MESH" /\ sc[i].parent # 0 /\ phide(sc, i)
        THEN 0 ELSE sc[i].parent]

\* Positions of the scene's objects in iteration order.
all_objects(sc) == [i \in 1..Len(sc) |-> i]

\* The object at position i is appended to base_candidates (line 782).
IsBaseCandidate(sc, i) ==
    /\ sc[i].type = "MESH"
    /\ sc[i].parent # 0 => phide(sc, i)
    /\ ~(sc[i].polygons < 150 /\ ~sc[i].nodes)

base_candidates(sc) ==
    SelectSeq(all_objects(sc), LAMBDA i : IsBaseCandidate(sc, i))

\* The object at position i is appended to icing_candidates (line 799).
IsIcingCandidate(sc, i) ==
    /\ sc[i].type = "MESH"
    /\ sc[i].particle_systems
    /\ ~(sc[i].polygons < 150)

icing_candidates(sc) ==
    SelectSeq(all_objects(sc), LAMBDA i : IsIcingCandidate(sc, i))

\* ob.children contains an icing candidate (ob.children is read after the
\* first loop has cleared parents).
any_icing(sc, ob) ==
    \E child \in DOMAIN sc :
        ParentsAfter(sc)[child] = ob /\ IsIcingCandidate(sc, child)

base_with_icing(sc) ==
    SelectSeq(base_candidates(sc), LAMBDA ob : any_icing(sc, ob))

\* The loop of lines 840-844 over the rest of iterate_options.
RECURSIVE LargestDonut(_, _, _, _)
LargestDonut(sc, options, size, base_donut) ==
    IF options = <<>> THEN base_donut
    ELSE IF sc[Head(options)].xy_scale > size
    THEN LargestDonut(sc, Tail(options), sc[Head(options)].xy_scale,
                      Head(options))
    ELSE LargestDonut(sc, Tail(options), size, base_donut)

\* get_interest_objects(context, scn, this_row): what it returns, the parents
\* it leaves and this_row.qc_error, for a row whose bag is qc_error.
get_interest_objects(sc, qc_error) ==
    IF base_candidates(sc) = <<>>
    THEN [called |-> TRUE, ret |-> "None", base_donut |-> 0,
          from_icing |-> "None", icing_candidates |-> <<>>,
          parent |-> ParentsAfter(sc),
          qc_error |-> extend_qc_error(qc_error, ERR_NO_BASE_MESH,
                                       FALSE).qc_error]
    ELSE LET from_icing == base_with_icing(sc) # <<>>
             iterate_options == IF from_icing THEN base_with_icing(sc)
                                ELSE base_candidates(sc)
         IN  [called |-> TRUE, ret |-> "tuple",
              base_donut |-> LargestDonut(sc, iterate_options, 0, 0),
              from_icing |-> IF from_icing THEN "True" ELSE "False",
              icing_candidates |-> icing_candidates(sc),
              parent |-> ParentsAfter(sc),
              qc_error |-> qc_error]

\* The other variables while the selector is examined.
SelOthers ==
    /\ QCIdle
    /\ MainOff
    /\ ViewIdle
    /\ ResIdle
    /\ BoxIdle

\* Up to MaxObjs objects of any shapes, in every iteration order.
InitSel ==
    /\ \E n \in 1..MaxObjs :
          \E shapes \in [1..n -> ObjShapes] :
             \E parent \in Parents(n) : o_scene = Scene(shapes, parent)
    /\ o_out = NoOut
    /\ SelOthers

\* get_interest_objects is called once on the loaded scene.
SelectSubject ==
    /\ ~o_out.called
    /\ o_out' = get_interest_objects(o_scene, <<>>)
    /\ o_scene' = o_scene
    /\ UNCHANGED <<qcVars, diskVars, procVars, histVars, viewVars, resVars,
                 boxVars>>

NextSel == SelectSubject

SpecSel == InitSel /\ [][NextSel]_vars

-----------------------------------------------------------------------------
(* Properties of the subject selection (checked under SpecSel)             *)

\* Object i is the one mesh of the scene that meets the base-candidate
\* conditions, every other object being a mesh below the polygon floor.
LoneCandidate(sc, i) ==
    /\ IsBaseCandidate(sc, i)
    /\ \A j \in DOMAIN sc \ {i} :
          /\ sc[j].type = "MESH" /\ sc[j].polygons < 150
          /\ ~IsBaseCandidate(sc, j)

\* C15 (as claimed): in a scene with exactly one mesh meeting the
\* base-candidate conditions and any number of meshes below the polygon
\* floor, get_interest_objects returns that mesh as the subject, for every
\* iteration order and every planar size of the mesh, zero included.
C15_LoneCandidateIsSubject ==
    o_out.called =>
        \A i \in DOMAIN o_scene :
            LoneCandidate(o_scene, i) => o_out.base_donut = i

\* Object b of the scene has a decoration-pool object as a direct child.
HasDecorationChild(sc, b) ==
    \E c \in DOMAIN sc : sc[c].parent = b /\ IsIcingCandidate(sc, c)

\* C16 (as claimed): when no base candidate has a decoration child,
\* get_interest_objects returns a base candidate whose planar size is the
\* maximum over all base candidates, and among candidates of equal maximal
\* size the first one in pool iteration order.
C16_LargestFirstWins ==
    LET pool == base_candidates(o_scene)
    IN  (/\ o_out.called
         /\ pool # <<>>
         /\ \A k \in DOMAIN pool : ~HasDecorationChild(o_scene, pool[k]))
        => \E k \in DOMAIN pool :
              /\ o_out.base_donut = pool[k]
              /\ \A j \in DOMAIN pool :
                    o_scene[pool[j]].xy_scale <= o_scene[pool[k]].xy_scale
              /\ \A j \in 1..(k - 1) :
                    o_scene[pool[j]].xy_scale < o_scene[pool[k]].xy_scale

\* C17 (as claimed): if at least one base candidate has a decoration-pool
\* object as a direct child, the subject get_interest_objects returns is one
\* of the base candidates that have such a child, even when a base candidate
\* without one has a larger planar size.
C17_DecoratedCandidateWins ==
    LET pool == base_candidates(o_scene)
    IN  (/\ o_out.called
         /\ \E k \in DOMAIN pool : HasDecorationChild(o_scene, pool[k]))
        => \E k \in DOMAIN pool :
              /\ o_out.base_donut = pool[k]
              /\ HasDecorationChild(o_scene, pool[k])

\* C18 (as claimed): an object of the decoration pool is never returned as
\* the subject by get_interest_objects, whether or not it has a parent.
C18_DecorationNeverSubject ==
    (o_out.called /\ o_out.base_donut # 0)
    => ~IsIcingCandidate(o_scene, o_out.base_donut)

-----------------------------------------------------------------------------
(* Properties of the process, continued (checked under Spec)               *)

\* C19 (as claimed): activating a submission whose scene has no eligible
\* base candidate records the tag "No base mesh found" on the row and then
\* completes normally: when the activation returns, the crash marker written
\* for it has been deleted.
C19_NoBaseActivationClearsMarker ==
    [][LoadNoBase =>
          /\ TagCount(file_list'[file_list_index + 1].qc_error,
                      ERR_NO_BASE_MESH) = 1
          /\ ~crash_cache'.present]_vars

\* C20: when the load of one ready submission fails during a batch run, the
\* run does not halt: at its end the running flag is false, no ready row
\* that is not disqualified is left, and every other submission the run
\* selected is marked done with both of its render files written.
C20_BatchSurvivesLoadFailure ==
    [][(run = "batch" /\ run' = "none" /\ h_crashes' = h_crashes) =>
          /\ render_running' = FALSE
          /\ \A i \in DOMAIN file_list' :
                /\ file_list'[i].queue_status = READY
                      => Disqualified(file_list'[i])
                /\ (/\ h_hist'.passes[file_list'[i].src_blend] >= 1
                    /\ scene_kind[file_list'[i].src_blend] # "noload")
                      => /\ file_list'[i].queue_status = DONE
                         /\ RendersOnDisk(render_files', file_list'[i])]_vars

\* C20 witness: a batch run has ended in which the load of b.blend failed
\* and a.blend before it and c.blend after it were rendered and marked done.
C20_Witness ==
    /\ run = "none" /\ ~render_running /\ pc \in {"idle", "exited"}
    /\ \E i \in DOMAIN file_list :
          /\ scene_kind[file_list[i].src_blend] = "noload"
          /\ h_hist.passes[file_list[i].src_blend] = 1
          /\ \A j \in DOMAIN file_list \ {i} :
                /\ h_hist.passes[file_list[j].src_blend] = 1
                /\ file_list[j].src_blend \in h_hist.done
                /\ file_list[j].queue_status = DONE

-----------------------------------------------------------------------------
(* SpecQC: one row, arbitrary sequences of extend_qc_error calls           *)

MaxCalls == 4

\* Tag names the calls use: non-empty, without ';' or ':'.
QCTagNames == { <<"a">>, <<"a","b">>, ERR_CRASHED }

\* apply_error arguments: a name, or a name with a ':count' suffix.
QCApplyErrors ==
    QCTagNames \cup { <<"a", ":", "5">>, <<"a","b", ":", "x">> }

\* Bags a row may hold when the calls start (as read from a QC file or
\* entered by the operator).
QCInitBags ==
    { <<>>,
      <<"a","b",":","7">>,
      <<"a",":","2",";","a","b">>,
      <<"a",":","x">> }

\* Names of the tokens of a bag: the text before the first ':' of each token
TokenNames(bag) ==
    LET toks == Split(bag, ";")
    IN  [i \in DOMAIN toks |-> Split(toks[i], ":")[1]]

HoldsTag(bag, name) ==
    LET n == TokenNames(bag)
    IN  Len(bag) > 0 /\ \E i \in DOMAIN n : n[i] = name

InitQC ==
    /\ q_bag \in QCInitBags
    /\ q_init = q_bag
    /\ q_ret = "None"
    /\ q_last = [apply |-> <<>>, inc |-> FALSE]
    /\ q_prevbag = q_bag
    /\ q_twice = FALSE
    /\ q_run = [tag |-> <<>>, n |-> 0, ok |-> FALSE]
    /\ q_calls = 0
    /\ MainOff
    /\ SelIdle
    /\ ViewIdle
    /\ ResIdle
    /\ BoxIdle

\* One call extend_qc_error(row, apply_error, increment=inc)
ExtendCall(apply_error, inc) ==
    /\ q_calls < MaxCalls
    /\ LET r == extend_qc_error(q_bag, apply_error, inc)
       IN  /\ q_bag' = r.qc_error
           /\ q_ret' = r.ret
    /\ q_prevbag' = q_bag
    /\ q_last' = [apply |-> apply_error, inc |-> inc]
    /\ q_twice' = (q_calls > 0 /\ ~inc /\ q_last = [apply |-> apply_error,
                                                     inc |-> FALSE])
    /\ q_run' =
         IF inc /\ apply_error \in QCTagNames
         THEN IF q_run.ok /\ q_run.tag = apply_error
              THEN [q_run EXCEPT !.n = @ + 1]
              ELSE [tag |-> apply_error, n |-> 1,
                    ok |-> ~HoldsTag(q_bag, apply_error)]
         ELSE [tag |-> <<>>, n |-> 0, ok |-> FALSE]
    /\ q_calls' = q_calls + 1
    /\ q_init' = q_init
    /\ UNCHANGED <<diskVars, procVars, histVars, auxVars>>

ExtendPlain == \E t \in QCApplyErrors : ExtendCall(t, FALSE)

ExtendIncrement == \E t \in QCApplyErrors : ExtendCall(t, TRUE)

NextQC == ExtendPlain \/ ExtendIncrement

SpecQC == InitQC /\ [][NextQC]_vars

-----------------------------------------------------------------------------
(* Properties of the QC ledger (checked under SpecQC)                      *)

NoDupNames(bag) ==
    LET n == TokenNames(bag)
    IN  \A i, j \in DOMAIN n : i # j => n[i] # n[j]

\* C8: calling extend_qc_error(row, T, increment=False) twice in a row is
\* idempotent: the second call returns False and leaves the row's tag bag as
\* the first call left it, for every tag T and every starting bag.
C8_PlainTwiceIdempotent ==
    q_twice => (q_ret = "False" /\ q_bag = q_prevbag)

\* C8 witness: the first of two equal plain calls added the tag, the second
\* was the no-op.
C8_Witness ==
    q_twice /\ q_calls = 2 /\ q_bag # q_init /\ q_ret = "False"

\* C9 (as claimed): after N consecutive extend_qc_error(row, T, True) calls on
\* a row that did not hold tag T, qc_error_count(row.qc_error, T) is N,
\* whatever other tags the row holds.
C9_IncrementNTimesCountsN ==
    q_run.ok => qc_error_count(q_bag, q_run.tag) = q_run.n

\* C10: starting from an empty bag, after any sequence of extend_qc_error
\* calls no two tokens of the bag have the same tag name.
C10_TagNamesUnique ==
    q_init = <<>> => NoDupNames(q_bag)

\* C10 witness: from an empty bag, an incrementable tag was re-applied (its
\* count raised) while the bag holds another tag as well.
C10_Witness ==
    /\ q_init = <<>>
    /\ q_run.ok /\ q_run.n >= 2 /\ q_ret = "True"
    /\ Len(Split(q_bag, ";")) >= 2

-----------------------------------------------------------------------------
(* load_active_selection: the placeholder and the linked scenes (SpecView) *)

\* Most scenes linked in one session of the model.
MaxLoads == 3

\* A collection that is no scene's collection.
OtherColl == [blend |-> <<"o","t","h","e","r">>, n |-> 0]

\* An object of the collection "load_scene".
ViewObj(type, instance_type, instance_collection, location) ==
    [type |-> type, instance_type |-> instance_type,
     instance_collection |-> instance_collection, location |-> location]

\* What the collection holds when the session begins: nothing, what a saved
\* working file left there, or what the operator put there.
ViewStarts ==
    { <<>>,
      <<ViewObj("EMPTY", "COLLECTION", NoScene, "moved")>>,
      <<ViewObj("EMPTY", "COLLECTION", OtherColl, "moved"),
        ViewObj("EMPTY", "COLLECTION", OtherColl, "origin")>>,
      <<ViewObj("EMPTY", "COLLECTION", NoScene, "moved"),
        ViewObj("MESH", "NONE", NoScene, "moved")>>,
      <<ViewObj("EMPTY", "NONE", NoScene, "origin")>>,
      <<ViewObj("MESH", "NONE", NoScene, "origin"),
        ViewObj("EMPTY", "COLLECTION", NoScene, "origin")>> }

\* get_loaded_scene: "none" (nothing loaded, or no single scene owns the
\* instanced collection), "raise", or the scene of the first object.
get_loaded_scene(scenes, objs) ==
    IF Len(objs) = 0 THEN [ret |-> "none", scene |-> NoScene]
    ELSE IF ~(objs[1].instance_type = "COLLECTION"
              \/ objs[1].instance_collection # NoScene)
    THEN [ret |-> "raise", scene |-> NoScene]
    ELSE LET scene == {scn \in scenes : scn = objs[1].instance_collection}
         IN  IF Cardinality(scene) # 1
             THEN [ret |-> "none", scene |-> NoScene]
             ELSE [ret |-> "scene", scene |-> CHOOSE scn \in scene : TRUE]

\* replace_view_layer leaving old_scene in bpy.data.scenes.
remove_old_scene_kept(scenes, old_scene) == scenes

\* bpy.data.scenes.remove(old_scene), lines 464-465
remove_old_scene(scenes, old_scene) ==
    IF old_scene.ret = "scene" THEN scenes \ {old_scene.scene} ELSE scenes

\* The objects of the collection once old_scene is removed: the host clears
\* the references to its collection.
Unreferenced(objs, old_scene) ==
    [i \in DOMAIN objs |->
        IF old_scene.ret = "scene"
           /\ objs[i].instance_collection = old_scene.scene
        THEN [objs[i] EXCEPT !.instance_collection = NoScene]
        ELSE objs[i]]

\* Lines 467-488 of replace_view_layer: the first empty is kept and every
\* other object removed, an empty is made if there is none, and it becomes
\* the instance of the scene at the origin.
attach_scene(objs, scene) ==
    LET empties == {i \in DOMAIN objs : objs[i].type = "EMPTY"}
        this_empty == IF empties = {} THEN 0
                      ELSE CHOOSE i \in empties : \A j \in empties : i <= j
        obj == IF this_empty = 0
               THEN ViewObj("EMPTY", "NONE", NoScene, "origin")
               ELSE objs[this_empty]
    IN  <<[obj EXCEPT !.instance_type = "COLLECTION",
                      !.instance_collection = scene,
                      !.location = "origin"]>>

InitView ==
    /\ w_scenes = {}
    /\ w_objs \in ViewStarts
    /\ w_pc = "idle"
    /\ w_load = NoLoad
    /\ QCIdle
    /\ MainOff
    /\ SelIdle
    /\ ResIdle
    /\ BoxIdle

ViewOthers ==
    UNCHANGED <<qcVars, diskVars, procVars, histVars, selVars, resVars,
                 boxVars>>

\* load_active_selection up to line 378: libraries.load links the first
\* scene of the file.  For a file whose scene is already linked the host
\* either makes a new scene or hands back the one there, and then no new
\* scene is found and the function raises.
ViewLink ==
    /\ w_pc = "idle"
    /\ w_load.links < MaxLoads
    /\ \E b \in Blends :
          \/ /\ w_scenes' = w_scenes \cup {[blend |-> b, n |-> w_load.links + 1]}
             /\ w_pc' = "linked"
             /\ w_load' = [w_load EXCEPT
                              !.new = [blend |-> b, n |-> w_load.links + 1],
                              !.old = get_loaded_scene(w_scenes, w_objs).scene,
                              !.ok = FALSE, !.links = @ + 1]
             /\ w_objs' = w_objs
          \/ /\ \E scn \in w_scenes : scn.blend = b
             /\ w_load' = [w_load EXCEPT !.ok = FALSE, !.failed = TRUE,
                                         !.links = @ + 1]
             /\ UNCHANGED <<w_scenes, w_objs, w_pc>>
    /\ ViewOthers

\* replace_view_layer, lines 462-465: the scene loaded before is removed,
\* or get_loaded_scene raises and the load ends there.
ViewRemoveOld ==
    /\ w_pc = "linked"
    /\ LET old_scene == get_loaded_scene(w_scenes \ {w_load.new}, w_objs)
       IN  IF old_scene.ret = "raise"
           THEN /\ w_pc' = "idle"
                /\ w_load' = [w_load EXCEPT !.failed = TRUE]
                /\ UNCHANGED <<w_scenes, w_objs>>
           ELSE /\ w_scenes' = remove_old_scene(w_scenes, old_scene)
                /\ w_objs' = Unreferenced(w_objs, old_scene)
                /\ w_pc' = "removed"
                /\ w_load' = w_load
    /\ ViewOthers

\* replace_view_layer, lines 467-488, and the rest of load_active_selection
ViewAttach ==
    /\ w_pc = "removed"
    /\ w_objs' = attach_scene(w_objs, w_load.new)
    /\ w_pc' = "idle"
    /\ w_load' = [w_load EXCEPT !.ok = TRUE]
    /\ w_scenes' = w_scenes
    /\ ViewOthers

NextView == ViewLink \/ ViewRemoveOld \/ ViewAttach

SpecView == InitView /\ [][NextView]_vars

\* C21: after any sequence of successful activations the placeholder
\* collection holds exactly one object, the placeholder, which references
\* the newly loaded scene at the origin, and that scene is the only linked
\* submission scene resident; the scene loaded before is gone by the time
\* the new one is attached.
C21_OnePlaceholderOneScene ==
    (w_load.ok /\ ~w_load.failed)
    => /\ Len(w_objs) = 1
       /\ w_objs[1].type = "EMPTY"
       /\ w_objs[1].instance_type = "COLLECTION"
       /\ w_objs[1].instance_collection = w_load.new
       /\ w_objs[1].location = "origin"
       /\ w_scenes = {w_load.new}
       /\ w_load.old # w_load.new

\* C21 witness: a second submission was loaded over a first one, whose scene
\* was removed.
C21_Witness ==
    /\ w_load.ok /\ ~w_load.failed
    /\ w_load.old # NoScene
    /\ w_load.old.blend # w_load.new.blend
    /\ w_load.old \notin w_scenes

-----------------------------------------------------------------------------
(* load_csv_metadata on registries with repeated rows (SpecCsv)            *)

\* Most data rows of a registry.
MaxRows == 3

CsvColumns == <<COL_FILENAME, COL_FULL_NAME, COL_COUNTRY, COL_URL, COL_EMAIL>>

\* The header line: all five columns, or all but one of them.
CsvHeaders ==
    {CsvColumns}
    \cup {SelectSeq(CsvColumns, LAMBDA c : c # col) :
             col \in {COL_FILENAME, COL_FULL_NAME, COL_COUNTRY, COL_URL,
                      COL_EMAIL}}

\* What a form response says: the file, who sent it (name and upload id)
\* and the email.
CsvEntries ==
    [blend : {BlendA, BlendB},
     person : {[name |-> <<"A","n","n">>, id |-> <<"1">>],
               [name |-> <<"B","o","b">>, id |-> <<"2">>]},
     email : {<<"e","1">>, <<"e","2">>}]

\* a line of the file under the given header
CsvLine(header, e) ==
    [i \in DOMAIN header |->
        CASE header[i] = COL_FILENAME -> e.blend
          [] header[i] = COL_FULL_NAME -> e.person.name
          [] header[i] = COL_COUNTRY -> <<"U","S">>
          [] header[i] = COL_URL -> <<"u">> \o URL_ID_SEP \o e.person.id
          [] header[i] = COL_EMAIL -> e.email]

CsvFile(header, entries) ==
    [present |-> TRUE,
     rows |-> <<header>> \o [i \in DOMAIN entries |->
                                CsvLine(header, entries[i])]]

\* a copy of a.blend as a download manager names it
BlendACopy == <<"a", " ", "(", "1", ")">> \o DOT_BLEND

CsvBlends == Blends \cup {BlendACopy}

InitCsv ==
    /\ QCIdle
    /\ SelIdle
    /\ ViewIdle
    /\ ResIdle
    /\ BoxIdle
    /\ src_folder \in {{BlendA, BlendB}, {BlendA, BlendACopy}}
    /\ scene_kind = [b \in CsvBlends |-> "ok"]
    /\ \E header \in CsvHeaders : \E n \in 0..MaxRows :
          \E entries \in [1..n -> CsvEntries] :
             tsv = CsvFile(header, entries)
    /\ qc_files = [b \in CsvBlends |-> NoFile]
    /\ crash_cache = NoMarker
    /\ render_files = {}
    /\ pc = "off"
    /\ blend_filter = FILTER_ALL
    /\ file_list = <<>>
    /\ file_list_index = 0
    /\ render_running = FALSE
    /\ _MID_RENDER = FALSE
    /\ _EXISTING_FILE_CACHE = {}
    /\ _FORM_DATA = <<>>
    /\ filepath = <<>>
    /\ loaded_scene = <<>>
    /\ act_ret = "idle"
    /\ run = "none"
    /\ remaining = 0
    /\ job = NoJob
    /\ headless = FALSE
    /\ restart_file = FALSE
    /\ scene_stats = NoStats
    /\ h_crashes = 0
    /\ h_ops = 0
    /\ h_hist = [NoHist EXCEPT !.loads = [b \in CsvBlends |-> 0]]

\* The only step: the host starts and update_source_folder reads the
\* registry and builds the list.
NextCsv == Start

SpecCsv == InitCsv /\ [][NextCsv]_vars

\* the data rows of the registry file, and their fields
DataRows == 2..Len(tsv.rows)

FullHeader == \A c \in DOMAIN CsvColumns : HasCol(tsv.rows[1], CsvColumns[c])

CsvField(i, col) == tsv.rows[i][IndexOf(tsv.rows[1], col)]

\* C22: when several rows of the registry have the same filename, the record
\* stored for that filename (author name, country, URL) is that of the last
\* of those rows in the file.
C22_LastRowOfFilenameStored ==
    (pc # "off" /\ h_hist.csv = "loaded" /\ FullHeader)
    => \A i \in DataRows :
          LET key == CsvField(i, COL_FILENAME)
              same == {j \in DataRows : CsvField(j, COL_FILENAME) = key}
          IN  (Cardinality(same) > 1 /\ \A j \in same : j <= i)
              => /\ key \in DOMAIN _FORM_DATA
                 /\ _FORM_DATA[key].user_name = CsvField(i, COL_FULL_NAME)
                 /\ _FORM_DATA[key].country = CsvField(i, COL_COUNTRY)
                 /\ _FORM_DATA[key].url = CsvField(i, COL_URL)

\* C23: for every email that occurs in several rows (of different files),
\* after a rebuild with the filter "all" the submission of every one of those
\* rows is in the list, and it carries the tag "Not the latest entry for this
\* email" exactly when its row is not the last row for that email.
C23_EarlierEntriesFlaggedAndKept ==
    (pc # "off" /\ h_hist.csv = "loaded" /\ FullHeader
        /\ blend_filter = FILTER_ALL)
    => \A i \in DataRows :
          LET same == {j \in DataRows :
                          CsvField(j, COL_EMAIL) = CsvField(i, COL_EMAIL)}
          IN  (/\ Cardinality(same) > 1
               /\ \A j, k \in same :
                     j # k => CsvField(j, COL_FILENAME)
                                 # CsvField(k, COL_FILENAME))
              => \E r \in DOMAIN file_list :
                    /\ file_list[r].src_blend = CsvField(i, COL_FILENAME)
                    /\ Contains(file_list[r].qc_error, ERR_NOT_LATEST_ENTRY)
                          <=> (\E j \in same : j > i)

\* C24: load_csv_metadata ends in an error exactly when the header lacks the
\* filename, the author-name or the country column; a header that has the
\* three and lacks the URL or the email column loads without error.
C24_FatalIffRequiredColumnMissing ==
    pc # "off"
    => (h_hist.csv = "raised"
           <=> \E c \in {COL_FILENAME, COL_FULL_NAME, COL_COUNTRY} :
                  ~HasCol(tsv.rows[1], c))

-----------------------------------------------------------------------------
(* Properties of the render queue                                          *)

\* C25: cancellation is observed only between submissions.  Once the running
\* flag is false in a timer-driven run, no step begins a pass or writes an
\* image and the next tick ends the run; an iteration of the batch loop that
\* finds the flag false starts no submission and ends the run; and the step
\* that finishes a thumbnail pass always starts the full pass of the same
\* submission, whatever the flag says.
C25_CancelOnlyBetweenSubmissions ==
    [][/\ (run = "timer" /\ ~render_running)
             => /\ h_hist'.passes = h_hist.passes
                /\ render_files' = render_files
                /\ pc' = "idle" /\ run' = "none"
       /\ (pc = "batch" /\ ~render_running)
             => /\ h_hist'.passes = h_hist.passes
                /\ run' = "none"
       /\ (pc = "render_small" /\ pc' # "off")
             => /\ \/ pc' = "render_full"
                   \/ job'.active
                /\ file_list_index' = file_list_index
                /\ filepath' = setup_large_render(State).filepath
                /\ render_files' = render_files
                                      \cup {<<filepath[1],
                                              filepath[2] \o DOT_PNG>>}]_vars

\* C25 witness: a timer-driven run that was cancelled with ready rows left
\* has ended, after at least one submission got both passes.
C25_Witness ==
    /\ run = "none" /\ pc = "idle" /\ ~render_running
    /\ \E i \in DOMAIN file_list : file_list[i].queue_status = READY
    /\ \E j \in DOMAIN file_list :
          /\ file_list[j].queue_status = DONE
          /\ h_hist.passes[file_list[j].src_blend] = 1
          /\ file_list[j].src_blend \in h_hist.done

\* the rows whose queue status becomes done in the step
NewlyDone ==
    {i \in DOMAIN file_list' :
        /\ file_list'[i].queue_status = DONE
        /\ \/ i \notin DOMAIN file_list
           \/ file_list[i].queue_status # DONE
           \/ file_list[i].src_blend # file_list'[i].src_blend}

\* C26: a full pass starts only in the step that finishes the thumbnail pass
\* of the same submission, whose image is then written; the step that
\* finishes a thumbnail pass changes no row; and a row's status becomes done
\* only in a step that finishes the full pass of that row (never in a step
\* that rendered nothing), after which its full-size image is on disk.
C26_DoneOnlyAfterOwnFullPass ==
    [][/\ (pc' = "render_full" \/ (job'.active /\ ~job.active))
             => /\ pc = "render_small"
                /\ file_list_index' = file_list_index
                /\ <<filepath[1], filepath[2] \o DOT_PNG>> \in render_files'
       /\ (pc = "render_small" /\ pc' # "off") => file_list' = file_list
       /\ \A i \in NewlyDone :
             /\ pc = "render_full" \/ job.active
             /\ i = file_list_index + 1
             /\ file_list'[i].src_blend \in h_hist'.done
             /\ get_large_render_path(OutName(file_list'[i]))
                   \in render_files']_vars

\* C26 witness: in a batch run a row has become done after both of its
\* passes and the loop is about to take the next row.
C26_Witness ==
    /\ pc = "batch" /\ remaining > 0
    /\ \E i \in DOMAIN file_list :
          /\ file_list[i].queue_status = DONE
          /\ h_hist.passes[file_list[i].src_blend] >= 1
          /\ file_list[i].src_blend \in h_hist.done
          /\ RendersOnDisk(render_files, file_list[i])

\* How far a timer-driven run is from its end: the ready rows left, then the
\* position inside the tick, then the running flag.
TimerRank(list, at, running) ==
    10 * Cardinality({i \in DOMAIN list : list[i].queue_status = READY})
    + 2 * (CASE at = "idle" -> 4
             [] at \in {"loading", "raised"} -> 3
             [] at = "render_small" -> 2
             [] at = "render_full" -> 1
             [] OTHER -> 0)
    + (IF running THEN 1 ELSE 0)

\* C27: a tick of the timer-driven run leaves the timer registered only if
\* it found the running flag true and a ready row; every step of the run
\* that does not end it brings it nearer to its end (the render calls
\* return, so the run ends after finitely many steps); it ends with the
\* running flag false; and when it ends without having been cancelled,
\* every row that queue_all_files left ready (none of them disqualified) is
\* done.
C27_TimerRunEndsWithAllDone ==
    [][/\ (run = "timer" /\ pc = "idle" /\ run' = "timer" /\ pc' # "idle")
             => /\ render_running
                /\ \E i \in DOMAIN file_list :
                      file_list[i].queue_status = READY
       /\ (run = "timer" /\ run' = "timer")
             => /\ TimerRank(file_list', pc', render_running')
                      < TimerRank(file_list, pc, render_running)
                /\ pc' \in {"idle", "loading", "raised", "render_small",
                            "render_full"}
       /\ (run = "timer" /\ run' # "timer") => ~render_running'
       /\ (run = "timer" /\ run' # "timer" /\ render_running
              /\ pc' # "off")
             => /\ Len(file_list') = Len(h_hist.queued)
                /\ \A i \in DOMAIN h_hist.queued :
                      h_hist.queued[i].queue_status = READY
                         => /\ ~Disqualified(h_hist.queued[i])
                            /\ file_list'[i].queue_status = DONE]_vars

\* C27 witness: a timer-driven run over at least two ready rows has ended
\* by itself, with every row it was started on done.
C27_Witness ==
    /\ run = "none" /\ pc = "idle" /\ ~render_running /\ ~headless
    /\ Cardinality({i \in DOMAIN h_hist.queued :
                       h_hist.queued[i].queue_status = READY}) >= 2
    /\ Len(file_list) = Len(h_hist.queued)
    /\ \A i \in DOMAIN h_hist.queued :
          h_hist.queued[i].queue_status = READY
             => /\ file_list[i].queue_status = DONE
                /\ h_hist.passes[file_list[i].src_blend] = 1

-----------------------------------------------------------------------------
(* The render resolution over the queue runs of a session (SpecRes)        *)

\* Most queue runs of a session, most changes of the resolution by the
\* operator, most ready rows of a run.
MaxRuns == 3

MaxSets == 2

MaxQueue == 2

\* props.thumbnail_pixels (its default)
thumbnail_pixels == 100

\* The resolutions the operator chooses among
Resolutions == {<<1920, 1080>>, <<1280, 720>>, <<640, 480>>}

\* The resolution state: what the three functions read and write of it
ResState == [resolution |-> resolution, PRIOR_RENDER |-> PRIOR_RENDER]

\* setup_small_render, lines 1473-1481
small_resolution(st) ==
    [resolution |-> <<thumbnail_pixels, thumbnail_pixels>>,
     PRIOR_RENDER |-> IF st.PRIOR_RENDER = <<>> THEN st.resolution
                      ELSE st.PRIOR_RENDER]

\* setup_large_render, lines 1444-1452
large_resolution(st) ==
    IF st.PRIOR_RENDER = <<>>
    THEN [st EXCEPT !.PRIOR_RENDER = st.resolution]
    ELSE [st EXCEPT !.resolution = st.PRIOR_RENDER]

\* "Always revert samples back": lines 1230-1232 and 1254-1256
revert_resolution(st) ==
    IF st.PRIOR_RENDER # <<>>
    THEN [st EXCEPT !.resolution = st.PRIOR_RENDER]
    ELSE st

ResCommit(st, at, hist) ==
    /\ resolution' = st.resolution
    /\ PRIOR_RENDER' = st.PRIOR_RENDER
    /\ r_pc' = at
    /\ r_run' = hist
    /\ UNCHANGED <<qcVars, diskVars, procVars, histVars, selVars, viewVars,
                 boxVars>>

InitRes ==
    /\ resolution \in Resolutions
    /\ PRIOR_RENDER = <<>>
    /\ r_pc = "idle"
    /\ r_run = NoRun
    /\ QCIdle
    /\ MainOff
    /\ SelIdle
    /\ ViewIdle
    /\ BoxIdle

\* The operator sets the scene's render resolution between two runs.
ResSetResolution ==
    /\ r_pc = "idle"
    /\ r_run.sets < MaxSets
    /\ \E v \in Resolutions \ {resolution} :
          ResCommit([ResState EXCEPT !.resolution = v], "idle",
                    [r_run EXCEPT !.sets = @ + 1, !.ended = FALSE])

\* render_next_in_queue up to the thumbnail render call
ResRenderNext(hist) ==
    ResCommit(small_resolution(ResState), "small",
              [hist EXCEPT !.cfg = resolution])

\* initiate_render_queue on n ready rows (from render_open_file,
\* render_all_files or startup.py): with none it reverts and returns; else
\* render_next_in_queue runs, which with its one row disqualified sets up
\* the full pass and returns.
ResStartQueue ==
    /\ r_pc = "idle"
    /\ r_run.runs < MaxRuns
    /\ \E n \in 0..MaxQueue :
          LET hist == [r_run EXCEPT !.mode = "queue", !.left = n,
                                    !.conf = resolution, !.runs = @ + 1,
                                    !.ended = FALSE]
          IN  \/ /\ n = 0
                 /\ ResCommit(revert_resolution(ResState), "idle",
                              [hist EXCEPT !.ended = TRUE])
              \/ /\ n = 1
                 /\ ResCommit(large_resolution(ResState), "idle",
                              [hist EXCEPT !.ended = TRUE])
              \/ /\ n >= 1
                 /\ ResRenderNext(hist)

\* SCENE_OT_render_all_interactive.invoke: the timer is registered
ResStartTimer ==
    /\ r_pc = "idle"
    /\ r_run.runs < MaxRuns
    /\ \E n \in 0..MaxQueue :
          ResCommit(ResState, "tick",
                    [r_run EXCEPT !.mode = "timer", !.left = n,
                                  !.conf = resolution, !.runs = @ + 1,
                                  !.ended = FALSE])

\* render_timer_callback: cancelled, nothing left, or the next row
ResTick ==
    /\ r_pc = "tick"
    /\ \/ ResCommit(ResState, "idle", [r_run EXCEPT !.ended = TRUE])
       \/ /\ r_run.left = 0
          /\ ResCommit(revert_resolution(ResState), "idle",
                       [r_run EXCEPT !.ended = TRUE])
       \/ /\ r_run.left > 0
          /\ ResRenderNext(r_run)

\* The thumbnail pass is over: the full pass is set up and rendered.
ResSmallDone ==
    /\ r_pc = "small"
    /\ ResCommit(large_resolution(ResState), "full",
                 [r_run EXCEPT
                     !.full = large_resolution(ResState).resolution])

\* The full pass is over: the timer callback returns, the batch loop takes
\* the next row, or the run ends.
ResFullDone ==
    /\ r_pc = "full"
    /\ LET hist == [r_run EXCEPT !.left = @ - 1]
       IN  IF r_run.mode = "timer" THEN ResCommit(ResState, "tick", hist)
           ELSE IF hist.left = 0
           THEN ResCommit(ResState, "idle", [hist EXCEPT !.ended = TRUE])
           ELSE ResRenderNext(hist)

NextRes ==
    \/ ResSetResolution \/ ResStartQueue \/ ResStartTimer \/ ResTick
    \/ ResSmallDone \/ ResFullDone

SpecRes == InitRes /\ [][NextRes]_vars

\* C28: every full pass renders at the resolution the scene had when the
\* thumbnail pass of the same submission was set up, and when a queue run
\* has ended the scene has the resolution that was configured when the run
\* was started, also in a run that follows a change of the resolution by
\* the operator.
C28_FullPassAtConfiguredResolution ==
    /\ r_pc = "full" => resolution = r_run.cfg
    /\ r_run.ended => resolution = r_run.conf

\* the rows of list from position from on that are ready and not disqualified
Eligible(list, from) ==
    {i \in DOMAIN list : /\ i >= from
                         /\ list[i].queue_status = READY
                         /\ ~Disqualified(list[i])}

\* What a step that runs render_next_in_queue on list does when the scan
\* is taken to begin at position from: the first eligible row is activated
\* for rendering, or, with none, nothing is activated or rendered and the
\* running flag is false afterwards.
ScanFrom(list, from) ==
    IF Eligible(list, from) # {}
    THEN /\ pc' = "loading" /\ act_ret' = "render"
         /\ \A j \in Eligible(list, from) : file_list_index' + 1 <= j
         /\ file_list_index' + 1 \in Eligible(list, from)
    ELSE /\ file_list_index' = file_list_index
         /\ ~render_running'
         /\ pc' \notin {"loading", "raised", "render_small", "render_full"}
         /\ render_files' = render_files
         /\ h_hist'.loads = h_hist.loads

\* The steps that run render_next_in_queue, each with the list it scans
RenderNextSteps(from) ==
    /\ (TimerTick /\ render_running
           /\ \E i \in DOMAIN file_list : file_list[i].queue_status = READY)
          => ScanFrom(file_list, from)
    /\ (BatchNext /\ render_running /\ remaining > 0)
          => ScanFrom(file_list, from)
    /\ RenderOpenFile
          => ScanFrom(render_open_file_mark(State).file_list, from)
    /\ (RenderAllFiles
           /\ \E i \in DOMAIN file_list :
                 queue_all_files(State).file_list[i].queue_status = READY)
          => ScanFrom(queue_all_files(State).file_list, from)

\* C29 as stated: render_next_in_queue activates the first row at or after
\* the cursor that is ready and not disqualified; with no such row it
\* activates nothing, renders nothing and sets the running flag false.
C29_FirstReadyFromCursor == [][RenderNextSteps(file_list_index + 1)]_vars

\* C29 amended: render_next_in_queue activates the first row of the list,
\* counted from the top wherever the cursor is, that is ready and not
\* disqualified; with no such row it activates nothing, renders nothing and
\* sets the running flag false.
C29_FirstReadyFromTop == [][RenderNextSteps(1)]_vars

\* C29 witness: a batch run begun with rows above and below the first one to
\* render has activated a row that is not the first of the list, after it
\* rendered an earlier one.
C29_Witness ==
    /\ pc = "loading" /\ act_ret = "render" /\ run = "batch"
    /\ file_list_index >= 1
    /\ \E i \in DOMAIN file_list :
          /\ i < file_list_index + 1
          /\ file_list[i].queue_status = DONE

\* the key get_data_for_blend tries second: the name without the four
\* characters before its extension
StrippedKey(blend) ==
    SubSeq(SplitExt(blend)[1], 1, Len(SplitExt(blend)[1]) - 4)
    \o SplitExt(blend)[2]

\* the row made for the file blend shows the record rec
RowShows(blend, rec) ==
    \E r \in DOMAIN file_list :
       /\ file_list[r].src_blend = blend
       /\ file_list[r].has_form_match
       /\ file_list[r].user_name = rec.user_name
       /\ file_list[r].country = rec.country

\* C30: with a registry that is not empty, get_data_for_blend gives every
\* file of the source folder the record under its own name when there is
\* one, else the record under its name with the copy marker stripped when
\* there is one, and else a similar record or none without raising, so that
\* the rebuild (filter "all") makes a row for every file.
C30_LookupNeverRaises ==
    (pc # "off" /\ h_hist.csv = "loaded" /\ blend_filter = FILTER_ALL
        /\ DOMAIN _FORM_DATA # {})
    => \A blend \in src_folder :
          /\ \E r \in DOMAIN file_list : file_list[r].src_blend = blend
          /\ blend \in DOMAIN _FORM_DATA
                => RowShows(blend, _FORM_DATA[blend])
          /\ (blend \notin DOMAIN _FORM_DATA
                 /\ StrippedKey(blend) \in DOMAIN _FORM_DATA)
                => RowShows(blend, _FORM_DATA[StrippedKey(blend)])

-----------------------------------------------------------------------------
(* The filters of update_source_folder (SpecFilter)                        *)

\* a tag the operator typed, which is the beginning of a tag of the program
TAG_NO_BASE == <<"N","o"," ","b","a","s","e">>

\* What qc_errors/<blend>.txt holds when the process starts
QcTexts ==
    { NoFile,
      File(TAG_NO_BASE),
      File(ERR_NO_BASE_MESH),
      File(ERR_CRASHED \o <<":", "2">>),
      File(ERR_CRASHED \o <<":", "2", ";">> \o TAG_NO_BASE) }

\* The renders on disk when the process starts: none, both passes of
\* a.blend (under its form id and under its name), or its thumbnail only
RenderWorlds ==
    { {},
      {get_large_render_path(<<"1">>), get_small_render_path(<<"1">>),
       get_large_render_path(BlendA), get_small_render_path(BlendA)},
      {get_small_render_path(<<"1">>), get_small_render_path(BlendA)} }

\* the filters of the dropdown (get_filter_enum) for these tags
FilterChoices ==
    {FILTER_ALL, FILTER_MISSING, FILTER_ANY_QC,
     <<"q","c","_">> \o ERR_CRASHED,
     <<"q","c","_">> \o TAG_NO_BASE,
     <<"q","c","_">> \o ERR_NO_BASE_MESH}

InitFilter ==
    /\ QCIdle
    /\ SelIdle
    /\ ViewIdle
    /\ ResIdle
    /\ BoxIdle
    /\ src_folder = Blends
    /\ scene_kind = [b \in Blends |-> "ok"]
    /\ tsv \in {TsvFull, TsvAbsent}
    /\ qc_files \in [Blends -> QcTexts]
    /\ crash_cache = NoMarker
    /\ render_files \in RenderWorlds
    /\ pc = "off"
    /\ blend_filter = FILTER_ALL
    /\ file_list = <<>>
    /\ file_list_index = 0
    /\ render_running = FALSE
    /\ _MID_RENDER = FALSE
    /\ _EXISTING_FILE_CACHE = {}
    /\ _FORM_DATA = <<>>
    /\ filepath = <<>>
    /\ loaded_scene = <<>>
    /\ act_ret = "idle"
    /\ run = "none"
    /\ remaining = 0
    /\ job = NoJob
    /\ headless = FALSE
    /\ restart_file = FALSE
    /\ scene_stats = NoStats
    /\ h_crashes = 0
    /\ h_ops = 0
    /\ h_hist = NoHist

\* The process starts with one of the filters saved in the scene.
StartFiltered == \E f \in FilterChoices : StartWith(f)

NextFilter == StartFiltered

SpecFilter == InitFilter /\ [][NextFilter]_vars

\* the persisted tag bag of a source file
PersistedBag(b) == IF qc_files[b].present THEN qc_files[b].text ELSE <<>>

\* C31: after a rebuild with the missing-only filter no row has
\* render_exists; with the any-QC filter every row's file had a non-empty
\* persisted tag bag; with the filter for tag T the rows are exactly the
\* source files whose persisted tag bag holds a tag named T.
C31_FiltersSelectRows ==
    [][(pc = "off" /\ pc' # "off")
          => LET listed == {file_list'[r].src_blend : r \in DOMAIN file_list'}
                 T == SubSeq(blend_filter', 4, Len(blend_filter'))
             IN  /\ blend_filter' = FILTER_MISSING
                       => \A r \in DOMAIN file_list' :
                             ~file_list'[r].render_exists
                 /\ blend_filter' = FILTER_ANY_QC
                       => \A b \in listed : Len(PersistedBag(b)) > 0
                 /\ blend_filter' \notin {FILTER_ALL, FILTER_MISSING,
                                          FILTER_ANY_QC}
                       => listed = {b \in src_folder :
                                       HoldsTag(PersistedBag(b), T)}]_vars

-----------------------------------------------------------------------------
(* Properties of the process: caches, cursor, marker                       *)

\* C32: no rebuild is in progress between two steps, so the existence cache
\* is empty in every state, also after a rebuild that ended with an error
\* while it made the rows, and the checks made later read the files on disk.
C32_CacheEmptyOutsideRebuild ==
    /\ _EXISTING_FILE_CACHE = {}
    /\ \A i \in DOMAIN file_list :
          /\ renders_exist_for_row(State, OutName(file_list[i]))
                = RendersOnDisk(render_files, file_list[i])
          /\ file_list[i].src_blend \in DOMAIN qc_files
                => read_qc_error(State, file_list[i].src_blend)
                      = IF qc_files[file_list[i].src_blend].present
                        THEN qc_files[file_list[i].src_blend].text ELSE <<>>


\* C33: whenever the submission list is non-empty the cursor is a position
\* of the list, 0 <= file_list_index < len(file_list), and no handler has
\* ended with the IndexError of a cursor outside the list.
C33_CursorInsideList ==
    Len(file_list) > 0
        => /\ 0 <= file_list_index
           /\ file_list_index < Len(file_list)
           /\ pc # "raised"

-----------------------------------------------------------------------------
(* SpecBox: one call of get_avg_pos_and_scale                              *)

MaxCoord == 2

Coords == (0 - MaxCoord) .. MaxCoord

\* obj.bound_box of a box lo .. hi: the eight corners in the host's order
bound_box(lo, hi) ==
    << <<lo[1], lo[2], lo[3]>>, <<lo[1], lo[2], hi[3]>>,
       <<lo[1], hi[2], hi[3]>>, <<lo[1], hi[2], lo[3]>>,
       <<hi[1], lo[2], lo[3]>>, <<hi[1], lo[2], hi[3]>>,
       <<hi[1], hi[2], hi[3]>>, <<hi[1], hi[2], lo[3]>> >>

\* obj.matrix_world @ corner, for an object that is not rotated, turned a
\* quarter or turned a half about Z
MatrixWorlds == {"identity", "quarter_z", "half_z"}

matrix_world(m, corner) ==
    IF m = "quarter_z" THEN <<0 - corner[2], corner[1], corner[3]>>
    ELSE IF m = "half_z" THEN <<0 - corner[1], 0 - corner[2], corner[3]>>
    ELSE corner

\* a Python value that is None or a number
None == [set |-> FALSE, v |-> 0]

Num(v) == [set |-> TRUE, v |-> v]

\* "not m": true of None and of the number 0
Not(m) == ~m.set \/ m.v = 0

\* "if not m or x < m: m = x" and "if not m or x > m: m = x"
TakeMin(m, x) == IF Not(m) \/ x < m.v THEN Num(x) ELSE m

TakeMax(m, x) == IF Not(m) \/ x > m.v THEN Num(x) ELSE m

\* the loop "for bound in bounds", from corner k on
RECURSIVE BoundsLoop(_, _, _)
BoundsLoop(bounds, k, a) ==
    IF k > Len(bounds) THEN a
    ELSE BoundsLoop(bounds, k + 1,
            [sum_pos |-> <<a.sum_pos[1] + bounds[k][1],
                           a.sum_pos[2] + bounds[k][2],
                           a.sum_pos[3] + bounds[k][3]>>,
             min_x |-> TakeMin(a.min_x, bounds[k][1]),
             max_x |-> TakeMax(a.max_x, bounds[k][1]),
             min_y |-> TakeMin(a.min_y, bounds[k][2]),
             max_y |-> TakeMax(a.max_y, bounds[k][2]),
             min_z |-> TakeMin(a.min_z, bounds[k][3]),
             max_z |-> TakeMax(a.max_z, bounds[k][3])])

\* a quotient of two integers, kept exact
Div(n, d) == [num |-> n, den |-> d]

SameNumber(p, q) == p.num * q.den = q.num * p.den

\* lines 957-964 on the loop's result
MeasureOf(a) ==
    [done |-> TRUE,
     avg_pos |-> <<Div(a.sum_pos[1], 8), Div(a.sum_pos[2], 8),
                   Div(a.sum_pos[3], 8)>>,
     xy_scale |-> Div((a.max_x.v - a.min_x.v) + (a.max_y.v - a.min_y.v), 2)]

get_avg_pos_and_scale(bounds) ==
    MeasureOf(BoundsLoop(bounds, 1,
        [sum_pos |-> <<0, 0, 0>>, min_x |-> None, max_x |-> None,
         min_y |-> None, max_y |-> None, min_z |-> None, max_z |-> None]))

InitBox ==
    /\ \E lo \in Coords \X Coords \X Coords, hi \in Coords \X Coords \X Coords,
          m \in MatrixWorlds :
          /\ \A k \in 1 .. 3 : lo[k] <= hi[k]
          /\ g_bounds = [k \in 1 .. 8 |-> matrix_world(m, bound_box(lo, hi)[k])]
    /\ g_out = NoMeasure
    /\ QCIdle
    /\ MainOff
    /\ SelIdle
    /\ ViewIdle
    /\ ResIdle

BoxMeasure ==
    /\ ~g_out.done
    /\ g_out' = get_avg_pos_and_scale(g_bounds)
    /\ UNCHANGED <<qcVars, diskVars, procVars, histVars, selVars, viewVars,
                   resVars, g_bounds>>

NextBox == BoxMeasure

SpecBox == InitBox /\ [][NextBox]_vars

CornerSet(k) == {g_bounds[i][k] : i \in DOMAIN g_bounds}

Largest(S) == CHOOSE x \in S : \A y \in S : y <= x

Smallest(S) == CHOOSE x \in S : \A y \in S : x <= y

RECURSIVE Total(_, _, _)
Total(bounds, k, i) ==
    IF i > Len(bounds) THEN 0 ELSE bounds[i][k] + Total(bounds, k, i + 1)

\* C34: for eight corners with integer coordinates the call returns the
\* planar size ((max x - min x) + (max y - min y)) / 2 over the corners and
\* their mean as the centre.
C34_SizeAndCentreOfCorners ==
    g_out.done
        => /\ SameNumber(g_out.xy_scale,
                Div((Largest(CornerSet(1)) - Smallest(CornerSet(1)))
                    + (Largest(CornerSet(2)) - Smallest(CornerSet(2))), 2))
           /\ \A k \in 1 .. 3 :
                 SameNumber(g_out.avg_pos[k], Div(Total(g_bounds, k, 1), 8))

-----------------------------------------------------------------------------
(* Properties of the process: what a render pass writes                    *)

\* the image files of row's output name that the step has just written
Written(row) ==
    {get_small_render_path(OutName(row)), get_large_render_path(OutName(row))}
        \cap (render_files' \ render_files)

\* C35: a step that writes a thumbnail or a full image under the output name
\* of submission X, or marks X done, is taken while X's own scene is the
\* loaded one; after a failed load of X nothing of the scene loaded before
\* is written under X's name.
C35_ArtifactsFromOwnScene ==
    [][\A i \in DOMAIN file_list :
          \/ Written(file_list[i]) # {}
          \/ /\ i \in DOMAIN file_list'
             /\ file_list'[i].src_blend = file_list[i].src_blend
             /\ file_list[i].queue_status # DONE
             /\ file_list'[i].queue_status = DONE
             /\ file_list'[i].render_exists
          => loaded_scene = file_list[i].src_blend]_vars

-----------------------------------------------------------------------------
(* Properties of the process: the crash marker                             *)

\* C36: while the process has never ended abnormally and no earlier process
\* left a marker, the marker file is absent whenever no activation is in
\* progress, and no row gets a "crashed" tag that neither its row, nor its
\* QC file, nor the operator's dialog gave it.
C36_NoCrashedTagWithoutCrash ==
    [][(h_crashes' = 0 /\ ~h_hist'.boot.marker.present)
          => /\ pc' \notin {"off", "loading", "raised"}
                   => ~crash_cache'.present
             /\ ~MarkQcError
                   => \A i \in DOMAIN file_list' :
                         HoldsTag(file_list'[i].qc_error, ERR_CRASHED)
                            => \/ \E j \in DOMAIN file_list :
                                     /\ file_list[j].src_blend
                                           = file_list'[i].src_blend
                                     /\ HoldsTag(file_list[j].qc_error,
                                                 ERR_CRASHED)
                               \/ HoldsTag(
                                     qc_files[file_list'[i].src_blend].text,
                                     ERR_CRASHED)]_vars

-----------------------------------------------------------------------------
(* SpecGuard: the process with a render call that raises                   *)

\* The host's render operator ends with RuntimeError for b.blend's content
\* ("render_raise"); every other outcome is the one of Spec.
KindRaises == [b \in Blends |-> IF b = BlendB THEN "render_raise" ELSE "ok"]

InitGuard ==
    /\ QCIdle
    /\ SelIdle
    /\ ViewIdle
    /\ ResIdle
    /\ BoxIdle
    /\ src_folder = Blends
    /\ scene_kind \in KindWorlds \cup {KindRaises}
    /\ tsv \in {TsvFull, TsvAbsent}
    /\ qc_files = [b \in Blends |-> NoFile]
    /\ crash_cache = NoMarker
    /\ render_files = {}
    /\ pc = "off"
    /\ blend_filter = FILTER_ALL
    /\ file_list = <<>>
    /\ file_list_index = 0
    /\ render_running = FALSE
    /\ _MID_RENDER = FALSE
    /\ _EXISTING_FILE_CACHE = {}
    /\ _FORM_DATA = <<>>
    /\ filepath = <<>>
    /\ loaded_scene = <<>>
    /\ act_ret = "idle"
    /\ run = "none"
    /\ remaining = 0
    /\ job = NoJob
    /\ headless \in BOOLEAN
    /\ restart_file = headless
    /\ scene_stats = NoStats
    /\ h_crashes = 0
    /\ h_ops = 0
    /\ h_hist = NoHist

\* An exception leaves render_next_in_queue: it ends the operator, the
\* start-up script or the timer that called it, and nothing is reset.
RaisedOut(s) ==
    [s EXCEPT !.run = "none", !.remaining = 0,
              !.pc = IF s.headless THEN "exited" ELSE "idle"]

\* The thumbnail call bpy.ops.render.render of render_next_in_queue raises.
RenderSmallRaises ==
    /\ pc = "render_small"
    /\ loaded_scene \in Blends
    /\ scene_kind[loaded_scene] = "render_raise"
    /\ Commit(RaisedOut(Now))

NextGuard ==
    \/ Next
    \/ RenderSmallRaises

SpecGuard == InitGuard /\ [][NextGuard]_vars

\* C37: _MID_RENDER is true only while the thumbnail pass is executing; it
\* is false once render_next_in_queue has returned or ended with an error,
\* and whenever a full pass completes.
C37_GuardOnlyDuringThumbnail ==
    pc # "render_small" => ~_MID_RENDER

-----------------------------------------------------------------------------
(* Properties of the process: the counters of the panel                    *)

\* C38: when an operation is over (the process is idle, no queue run and no
\* render job in progress) the cached counters are the values derived from
\* the list: rows, rows with render_exists, rows with a non-empty tag bag,
\* rows without a form match.
C38_CountersMatchList ==
    (pc = "idle" /\ run = "none" /\ ~job.active)
        => /\ scene_stats.blends = Len(file_list)
           /\ scene_stats.rendered
                 = Cardinality({i \in DOMAIN file_list :
                                   file_list[i].render_exists})
           /\ scene_stats.num_qc_error
                 = Cardinality({i \in DOMAIN file_list :
                                   Len(file_list[i].qc_error) > 0})
           /\ scene_stats.no_form_match
                 = Cardinality({i \in DOMAIN file_list :
                                   ~file_list[i].has_form_match})

-----------------------------------------------------------------------------
(* SpecNames: source folders whose file names differ in dots and case      *)

BlendADot == <<"a", ".">> \o DOT_BLEND

BlendACaps == <<"a", ".", "B", "L", "E", "N", "D">>

NameBlends == {BlendA, BlendADot, BlendACaps, BlendB}

InitNames ==
    /\ QCIdle
    /\ SelIdle
    /\ ViewIdle
    /\ ResIdle
    /\ BoxIdle
    /\ src_folder \in {S \in SUBSET NameBlends : Cardinality(S) = 2}
    /\ scene_kind = [b \in NameBlends |-> "ok"]
    /\ tsv = TsvAbsent
    /\ qc_files = [b \in NameBlends |-> NoFile]
    /\ crash_cache = NoMarker
    /\ render_files = {}
    /\ pc = "off"
    /\ blend_filter = FILTER_ALL
    /\ file_list = <<>>
    /\ file_list_index = 0
    /\ render_running = FALSE
    /\ _MID_RENDER = FALSE
    /\ _EXISTING_FILE_CACHE = {}
    /\ _FORM_DATA = <<>>
    /\ filepath = <<>>
    /\ loaded_scene = <<>>
    /\ act_ret = "idle"
    /\ run = "none"
    /\ remaining = 0
    /\ job = NoJob
    /\ headless = FALSE
    /\ restart_file = FALSE
    /\ scene_stats = NoStats
    /\ h_crashes = 0
    /\ h_ops = 0
    /\ h_hist = [NoHist EXCEPT !.loads = [b \in NameBlends |-> 0]]

StartNames == StartWith(FILTER_ALL)

NextNames ==
    \/ StartNames
    \/ LoadOk
    \/ RenderOpenFile
    \/ RenderSmallDone
    \/ RenderFullDone
    \/ RenderJobDone
    \/ OpenNextFile
    \/ Reload

SpecNames == InitNames /\ [][NextNames]_vars

\* C39: two rows of different submission filenames have different thumbnail
\* paths and different full-resolution paths, and a row reports
\* render_exists only when a full pass of its own submission has completed.
C39_DistinctNamesDistinctPaths ==
    /\ \A i, j \in DOMAIN file_list :
          file_list[i].src_blend # file_list[j].src_blend
             => /\ get_small_render_path(file_list[i].src_blend)
                      # get_small_render_path(file_list[j].src_blend)
                /\ get_large_render_path(file_list[i].src_blend)
                      # get_large_render_path(file_list[j].src_blend)
    /\ \A i \in DOMAIN file_list :
          file_list[i].render_exists
             => h_hist.loads[file_list[i].src_blend] > 0

-----------------------------------------------------------------------------
(* Properties of the headless run                                          *)

\* C40: a headless run that has ended without a crash of the process has
\* removed restart_until_finished.txt, also when the source folder gave no
\* row to render.
C40_EndedRunRemovedRestartFile ==
    (headless /\ pc = "exited") => ~restart_file

====
